---- MODULE Spec2Model ----
(***************************************************************************)
(* A model of the OctopusEnergyMonitor core:                               *)
(*   - utils/monitor.py, EnergyMonitor: the sampling loop with gap         *)
(*     smoothing, day-file seeding and stitching, and run()/stop();        *)
(*     with and without faults of the sensor and of the file writes;       *)
(*   - energy_monitor.py: the full-scan and the incremental cost/power     *)
(*     aggregation, the trailing-window figures, and main() with the       *)
(*     rollup thread and the trailing-window thread it starts;             *)
(*   - utils/file.py: the repair of the two latest logs at start-up.       *)
(*                                                                         *)
(* Time is counted in half-hours since the epoch, so a day has            *)
(* SlotsPerDay units and a price slot is one unit.  Floating-point        *)
(* values (lux, epoch times, costs) are modelled as exact rationals.      *)
(***************************************************************************)
EXTENDS Integers, Sequences, FiniteSets, TLC

(***************************************************************************)
(* Bounds of the model                                                     *)
(***************************************************************************)
\* the first and the last instant time.time() can show while a pulse is detected
StartClock == 93
MaxClock == 100
\* the longest log handed to the aggregation functions
MaxLen == 3
\* the number of incremental aggregation cycles of one run
MaxCycles == 2
\* the number of ticks of one run in which a file write raises
MaxWriteFaults == 1

(***************************************************************************)
(* Program constants                                                       *)
(***************************************************************************)
\* len(TIMES): the 48 half-hour slot labels "00:00" .. "23:30"
SlotsPerDay == 48
\* config["LTR559_MIN_LUX_DIFFERENCE_FOR_READING"]
LTR559_MIN_LUX_DIFFERENCE_FOR_READING == 2
\* config["LTR559_SMOOTHING_INTERVAL_MULTIPLIER"] = 1.7 = MultiplierNum / MultiplierDen
MultiplierNum == 17
MultiplierDen == 10
\* config["LTR559_SMOOTHING_LIMIT"]
LTR559_SMOOTHING_LIMIT == 2
\* config["BLINKS_PER_KILOWATT"]
BLINKS_PER_KILOWATT == 1000

\* the values the sensor can report (lux <= 0: no light)
LuxValues == {-1, 0, 1, 2, 4}

(***************************************************************************)
(* Exact rationals [n, d] with d > 0 in lowest terms: the model of the     *)
(* program's floats.                                                       *)
(***************************************************************************)
RECURSIVE GCD(_, _)
GCD(a, b) == IF b = 0 THEN a ELSE GCD(b, a % b)

Abs(x) == IF x < 0 THEN -x ELSE x

Rat(n, d) ==
  LET g == GCD(Abs(n), Abs(d))
      s == IF d < 0 THEN -1 ELSE 1
  IN [n |-> (s * n) \div g, d |-> (s * d) \div g]

R(i) == [n |-> i, d |-> 1]

RAdd(a, b) == Rat(a.n * b.d + b.n * a.d, a.d * b.d)
RSub(a, b) == Rat(a.n * b.d - b.n * a.d, a.d * b.d)
RMul(a, b) == Rat(a.n * b.n, a.d * b.d)
RDiv(a, b) == Rat(a.n * b.d, a.d * b.n)
RLt(a, b) == a.n * b.d < b.n * a.d
RLe(a, b) == a.n * b.d <= b.n * a.d
RAbs(a) == [n |-> Abs(a.n), d |-> a.d]
RFloor(a) == a.n \div a.d

\* np.round(a / b).astype(int): round half to even
np_round(a, b) ==
  LET x == RDiv(a, b)
      q == x.n \div x.d
      r == x.n - q * x.d
  IN IF 2 * r < x.d THEN q
     ELSE IF 2 * r > x.d THEN q + 1
     ELSE IF q % 2 = 0 THEN q ELSE q + 1

(***************************************************************************)
(* State                                                                   *)
(***************************************************************************)
VARIABLES
  \* EnergyMonitor object and its thread
  started,                 \* self.started
  thread,                  \* self.thread: "none", "alive" or "dead"
  monitor_pc,              \* the monitor thread: "while" (loop test), "body" or "except"
  stop_pc,                 \* the caller of stop(): "idle", "join", "returned", "raised"
  stop_seen_pc,            \* where the monitor thread was when stop() set the flag
  \* locals of EnergyMonitor.monitor
  current_lux,
  previous_lux,
  previous_previous_time,
  previous_time,
  previous_time_origin,
  current_time,
  fix_counter,
  \* the save directory: day -> rows of <day>.csv, for the files that exist
  files,
  \* every call of write_energy_reading_to_file so far, in order
  written,
  \* the number of ticks so far in which a file write raised
  write_faults,
  \* the aggregation loop
  readings,                \* the day's log
  time_to_price_map,
  shown,                   \* rows of the log the last snapshot held
  previous_time_watts_map,
  calculated_data,
  full_scan,
  cycles,
  \* one call of a reading function of energy_monitor.py
  reader_call,             \* the function called and its arguments
  reader_returned,         \* what the call returned or left behind
  \* main() of energy_monitor.py and the threads it starts
  main_pc,                 \* the statement main() is at
  done,
  first_run,
  date_today,              \* date.today(), as a day number
  tomorrow,
  cost_date,
  readings_csv_day,        \* the day of readings_csv_filename
  log_files,               \* save directory: day -> the records in <day>.csv
  fix_queue,               \* fix_data_corruption_of_latest_two_files: files to do
  fix_tmp,                 \* fix_text_corruption: the lines copied to tmp.txt
  appended,                \* the records the monitor thread has appended, by day
  monitor_running,         \* energy_loggger_thread.run() was called
  monitor_stuck,           \* the monitor thread is blocked in a sensor read
  cost_thread,             \* "none" or "set"
  rollup_pc,               \* daily_cost_thread: "idle", "computing", "writing", "ended"
  cost_values,             \* the list shared with daily_cost_thread
  past_costs,              \* yesterday_cost .. month_power of main()
  slots_read,              \* how many of them the rollover step has read so far
  past_cost_and_power_thread,            \* "none" or "set"
  past_cost_and_power_thread_first_run,
  window_pc,               \* the trailing-window thread: "idle", "running", "ended"
  window_threads,          \* how many threads of the windows function are alive
  window_target,           \* its target_date
  cost_and_power_data,     \* its return_data: None or the day of its readings_df
  snapshot_day,            \* readings_df of main(): None or the day of the log read
  map_dates                \* previous_time_watts_map of main(): None or the days
                           \* of the rows counted into it

monitor_vars == <<started, thread, monitor_pc, stop_pc, stop_seen_pc, current_lux,
                  previous_lux, previous_previous_time, previous_time,
                  previous_time_origin, current_time, fix_counter, files, written, write_faults>>
aggregation_vars == <<readings, time_to_price_map, shown, previous_time_watts_map,
                      calculated_data, full_scan, cycles>>
reader_vars == <<reader_call, reader_returned>>
frame_vars == <<main_pc, done, first_run, tomorrow, cost_date, readings_csv_day>>
file_vars == <<log_files, fix_queue, fix_tmp, appended, monitor_running, monitor_stuck>>
rollup_vars == <<cost_thread, rollup_pc, cost_values, past_costs, slots_read>>
window_vars == <<past_cost_and_power_thread, past_cost_and_power_thread_first_run,
                 window_pc, window_threads, window_target, cost_and_power_data>>
total_vars == <<snapshot_day, map_dates>>
main_vars == <<frame_vars, date_today, file_vars, rollup_vars, window_vars, total_vars>>
vars == <<monitor_vars, aggregation_vars, reader_vars, main_vars>>

\* Optional values: None is the empty tuple, a value v is <<v>>
None == <<>>
Some(v) == <<v>>

(***************************************************************************)
(* utils/monitor.py                                                        *)
(***************************************************************************)
\* datetime.fromtimestamp(t).strftime("%Y-%m-%d"), as a day number
Day(t) == RFloor(t) \div SlotsPerDay

\* the half-hour of the day t falls in: hour and minute rounded down to :00 or :30
SlotOfDay(t) == RFloor(t) % SlotsPerDay

\* datetime.fromtimestamp(t).strftime("%H:%M:%S.%f"): the time since midnight
TimeOfDay(t) == RSub(t, R(Day(t) * SlotsPerDay))

\* date.today() combined with the :00/:30 time of epoch_time
get_unit_datetime(epoch_time, today) == [date |-> today, slot |-> SlotOfDay(epoch_time)]

FileExists(fs, day) == day \in DOMAIN fs

\* is_first_input_to_csv that takes only a one-line file for a new one
only_one_line(fs, day) == Len(fs[day]) <= 1

\* at most two lines in the file
is_first_input_to_csv(fs, day) == Len(fs[day]) <= 2

\* open(csv_filename, "a") and one formatted line; site names the call.  st.budget
\* is the number of writes of this tick that succeed before open() raises (-1: none
\* raises); once st.faulted the exception is propagating and nothing else runs.
write_energy_reading_to_file(st, day, lux, epoch_time, unit, record_type, site) ==
  LET row == [lux |-> lux, epoch_time |-> epoch_time, time |-> TimeOfDay(epoch_time),
              unit |-> unit, origin |-> record_type]
  IN IF st.faulted THEN st
     ELSE IF st.budget = 0 THEN [st EXCEPT !.faulted = TRUE]
     ELSE [st EXCEPT
        !.files = IF FileExists(st.files, day)
                  THEN [st.files EXCEPT ![day] = Append(st.files[day], row)]
                  ELSE st.files @@ (day :> <<row>>),
        !.written = Append(st.written, [file |-> day, row |-> row, site |-> site]),
        !.budget = IF st.budget > 0 THEN st.budget - 1 ELSE st.budget]

Positive(t) == RLt(R(0), t)

\* current_interval > previous_interval * outlier_multiplier
ExceedsOutlier(current_interval, previous_interval) ==
  RLt(RMul(previous_interval, Rat(MultiplierNum, MultiplierDen)), current_interval)

\* line 176: the lux of the synthesized pulse index
interpolate_lux(c, index) ==
  RAdd(RDiv(RAdd(c.current_lux, c.original_previous_lux), R(2)), R(1 * index))

\* interpolate_time counting the segments down from the new pulse
interpolate_time_descending(c, num_segments, index) ==
  RAdd(c.original_previous_time,
       RMul(RDiv(RSub(c.current_time, c.original_previous_time), R(num_segments)),
            R(num_segments - 1 - index)))

\* lines 177-179: the time of the synthesized pulse index
interpolate_time(c, num_segments, index) ==
  RAdd(c.original_previous_time,
       RMul(RDiv(RSub(c.current_time, c.original_previous_time), R(num_segments)),
            R(index + 1)))

\* the body of "for index in range(max(0, num_segments - 1))", from index on
RECURSIVE smoothing_loop(_, _, _, _)
smoothing_loop(st, index, num_segments, c) ==
  IF index >= num_segments - 1 \/ st.faulted THEN st
  ELSE
    LET current_lux_fixed == interpolate_lux(c, index)
        current_time_fixed == interpolate_time(c, num_segments, index)
        unit_price_start_time == get_unit_datetime(current_time_fixed, c.today)
        current_day == Day(current_time_fixed)
        s1 == IF ~FileExists(st.files, current_day)
              THEN write_energy_reading_to_file(st, current_day, st.previous_lux,
                     st.previous_time, get_unit_datetime(st.previous_time, c.today),
                     st.previous_time_origin, "seed")
              ELSE st
        s2 == write_energy_reading_to_file(s1, current_day, current_lux_fixed,
                 current_time_fixed, unit_price_start_time, "fixed", "reading")
        s3 == IF ~s2.faulted /\ is_first_input_to_csv(s2.files, current_day)
              THEN write_energy_reading_to_file(s2, current_day - 1, current_lux_fixed,
                     current_time_fixed, unit_price_start_time, "fixed", "copy")
              ELSE s2
        s4 == IF s3.faulted THEN s3
              ELSE [s3 EXCEPT !.previous_previous_time = st.previous_time,
                              !.previous_lux = current_lux_fixed,
                              !.previous_time = current_time_fixed,
                              !.previous_time_origin = "fixed"]
    IN smoothing_loop(s4, index + 1, num_segments, c)

\* the locals and the directory, as one value
MonitorState ==
  [previous_lux |-> previous_lux, previous_previous_time |-> previous_previous_time,
   previous_time |-> previous_time, previous_time_origin |-> previous_time_origin,
   current_time |-> current_time, fix_counter |-> fix_counter,
   files |-> files, written |-> written, budget |-> -1, faulted |-> FALSE]

\* lines 157-160: the time history is shifted and the clock read
shift_history(st, now) ==
  [st EXCEPT !.previous_previous_time = st.previous_time,
             !.previous_time = st.current_time,
             !.previous_time_origin = "original",
             !.current_time = now]

HasHistory(st) == Positive(st.previous_previous_time) /\ Positive(st.previous_time)

\* smoothing_triggers without the test "fix_counter < smooth_limit"
smoothing_triggers_without_limit(st) ==
  /\ HasHistory(st)
  /\ ExceedsOutlier(RSub(st.current_time, st.previous_time),
                    RSub(st.previous_time, st.previous_previous_time))

\* line 168, on the shifted state
smoothing_triggers(st) ==
  /\ HasHistory(st)
  /\ ExceedsOutlier(RSub(st.current_time, st.previous_time),
                    RSub(st.previous_time, st.previous_previous_time))
  /\ st.fix_counter < LTR559_SMOOTHING_LIMIT

\* smooth_intervals with "range(num_segments)" for "range(num_segments - 1)"
smooth_intervals_one_more(st, lux, today) ==
  IF ~HasHistory(st) THEN st
  ELSE IF smoothing_triggers(st)
  THEN LET num_segments == np_round(RSub(st.current_time, st.previous_time),
                                    RSub(st.previous_time, st.previous_previous_time))
       IN smoothing_loop([st EXCEPT !.fix_counter = st.fix_counter + 1], 0,
                         num_segments + 1,
                         [current_lux |-> lux, current_time |-> st.current_time,
                          original_previous_time |-> st.previous_time,
                          original_previous_lux |-> st.previous_lux, today |-> today])
  ELSE [st EXCEPT !.fix_counter = 0]

\* lines 163-223
smooth_intervals(st, lux, today) ==
  IF ~HasHistory(st) THEN st
  ELSE IF smoothing_triggers(st)
  THEN LET num_segments == np_round(RSub(st.current_time, st.previous_time),
                                    RSub(st.previous_time, st.previous_previous_time))
       IN smoothing_loop([st EXCEPT !.fix_counter = st.fix_counter + 1], 0, num_segments,
                         [current_lux |-> lux, current_time |-> st.current_time,
                          original_previous_time |-> st.previous_time,
                          original_previous_lux |-> st.previous_lux, today |-> today])
  ELSE [st EXCEPT !.fix_counter = 0]

\* lines 225-261
save_reading(st, lux, today) ==
  LET current_day == Day(st.current_time)
      unit_price_start_time == get_unit_datetime(st.current_time, today)
      s1 == IF HasHistory(st) /\ ~FileExists(st.files, current_day)
            THEN write_energy_reading_to_file(st, current_day, st.previous_lux,
                   st.previous_time, get_unit_datetime(st.previous_time, today),
                   st.previous_time_origin, "seed")
            ELSE st
      s2 == write_energy_reading_to_file(s1, current_day, lux, st.current_time,
               unit_price_start_time, "original", "reading")
      s3 == IF /\ ~s2.faulted
               /\ is_first_input_to_csv(s2.files, current_day)
               /\ Positive(s2.previous_time)
            THEN write_energy_reading_to_file(s2, current_day - 1, lux, st.current_time,
                   unit_price_start_time, "original", "copy")
            ELSE s2
  IN IF st.faulted \/ s3.faulted THEN s3 ELSE [s3 EXCEPT !.previous_lux = lux]

\* lines 157-261: a pulse of lux is detected when the clock shows now
detect_pulse(st, lux, now) ==
  LET s0 == shift_history(st, now)
  IN save_reading(smooth_intervals(s0, lux, Day(now)), lux, Day(now))

\* line 153
is_debounced(lux) ==
  RLt(RAbs(RSub(previous_lux, lux)), R(LTR559_MIN_LUX_DIFFERENCE_FOR_READING))

(***************************************************************************)
(* The monitor thread, run() and stop()                                    *)
(***************************************************************************)
\* the instants the clock can show at the next detected pulse: two detections are
\* separated by a sensor read and a sleep, so the clock has advanced
NextInstants == {t \in StartClock..MaxClock : RLt(current_time, R(t))}

InBody == thread = "alive" /\ monitor_pc = "body"

\* the locals and the directory after the tick
SetMonitorState(st) ==
  /\ previous_lux' = st.previous_lux
  /\ previous_previous_time' = st.previous_previous_time
  /\ previous_time' = st.previous_time
  /\ previous_time_origin' = st.previous_time_origin
  /\ current_time' = st.current_time
  /\ fix_counter' = st.fix_counter
  /\ files' = st.files
  /\ written' = st.written

\* run(): the thread is created and started
Run ==
  /\ thread = "none"
  /\ thread' = "alive"
  /\ monitor_pc' = "while"
  /\ UNCHANGED <<started, stop_pc, stop_seen_pc, current_lux, previous_lux,
                 previous_previous_time, previous_time, previous_time_origin,
                 current_time, fix_counter, files, written, write_faults, aggregation_vars, reader_vars, main_vars>>

\* "while self.started": the thread enters the next tick or returns
MonitorWhile ==
  /\ thread = "alive"
  /\ monitor_pc = "while"
  /\ IF started
     THEN monitor_pc' = "body" /\ thread' = thread
     ELSE monitor_pc' = monitor_pc /\ thread' = "dead"
  /\ UNCHANGED <<started, stop_pc, stop_seen_pc, current_lux, previous_lux,
                 previous_previous_time, previous_time, previous_time_origin,
                 current_time, fix_counter, files, written, write_faults, aggregation_vars, reader_vars, main_vars>>

\* TickIdle that stores the idle reading in previous_lux
TickIdle_stores_lux ==
  /\ InBody
  /\ \E lux \in LuxValues :
       /\ lux <= 0
       /\ current_lux' = R(lux)
       /\ previous_lux' = R(lux)
  /\ monitor_pc' = "while"
  /\ UNCHANGED <<started, thread, stop_pc, stop_seen_pc,
                 previous_previous_time, previous_time, previous_time_origin,
                 current_time, fix_counter, files, written, write_faults, aggregation_vars, reader_vars, main_vars>>

\* a tick that reads lux <= 0: nothing but the sleep
TickIdle ==
  /\ InBody
  /\ \E lux \in LuxValues :
       /\ lux <= 0
       /\ current_lux' = R(lux)
  /\ monitor_pc' = "while"
  /\ UNCHANGED <<started, thread, stop_pc, stop_seen_pc, previous_lux,
                 previous_previous_time, previous_time, previous_time_origin,
                 current_time, fix_counter, files, written, write_faults, aggregation_vars, reader_vars, main_vars>>

\* TickDebounce that stores the reading in previous_lux before it continues
TickDebounce_stores_lux ==
  /\ InBody
  /\ \E lux \in LuxValues :
       /\ lux > 0
       /\ is_debounced(R(lux))
       /\ current_lux' = R(lux)
       /\ previous_lux' = R(lux)
  /\ monitor_pc' = "while"
  /\ UNCHANGED <<started, thread, stop_pc, stop_seen_pc,
                 previous_previous_time, previous_time, previous_time_origin,
                 current_time, fix_counter, files, written, write_faults, aggregation_vars, reader_vars, main_vars>>

\* a tick whose lux is too close to previous_lux: sleep and continue
TickDebounce ==
  /\ InBody
  /\ \E lux \in LuxValues :
       /\ lux > 0
       /\ is_debounced(R(lux))
       /\ current_lux' = R(lux)
  /\ monitor_pc' = "while"
  /\ UNCHANGED <<started, thread, stop_pc, stop_seen_pc, previous_lux,
                 previous_previous_time, previous_time, previous_time_origin,
                 current_time, fix_counter, files, written, write_faults, aggregation_vars, reader_vars, main_vars>>

\* lines 152-261 of a tick that detects a pulse of lux at the instant now
Detect(lux, now) ==
  /\ lux > 0
  /\ ~is_debounced(R(lux))
  /\ current_lux' = R(lux)
  /\ SetMonitorState(detect_pulse(MonitorState, R(lux), R(now)))
  /\ monitor_pc' = "while"
  /\ UNCHANGED <<started, thread, stop_pc, stop_seen_pc, write_faults, aggregation_vars, reader_vars, main_vars>>

\* a tick that detects a pulse and appends it (no gap to smooth)
TickPulse ==
  /\ InBody
  /\ \E lux \in LuxValues, now \in NextInstants :
       /\ ~smoothing_triggers(shift_history(MonitorState, R(now)))
       /\ Detect(lux, now)

\* a tick that detects a pulse after too long a gap and fills the gap first
TickGapSmoothing ==
  /\ InBody
  /\ \E lux \in LuxValues, now \in NextInstants :
       /\ smoothing_triggers(shift_history(MonitorState, R(now)))
       /\ Detect(lux, now)

\* stop(): self.started = False
StopSetFlag ==
  /\ stop_pc = "idle"
  /\ started' = FALSE
  /\ stop_pc' = "join"
  /\ stop_seen_pc' = IF thread = "alive" THEN monitor_pc ELSE thread
  /\ UNCHANGED <<thread, monitor_pc, current_lux, previous_lux,
                 previous_previous_time, previous_time, previous_time_origin,
                 current_time, fix_counter, files, written, write_faults, aggregation_vars, reader_vars, main_vars>>

\* StopJoin that does not wait for the thread
StopJoin_no_wait ==
  /\ stop_pc = "join"
  /\ stop_pc' = IF thread = "none" THEN "raised" ELSE "returned"
  /\ UNCHANGED <<started, thread, monitor_pc, stop_seen_pc, current_lux, previous_lux,
                 previous_previous_time, previous_time, previous_time_origin,
                 current_time, fix_counter, files, written, write_faults, aggregation_vars, reader_vars, main_vars>>

\* stop(): self.thread.join() returns once the thread has ended; with no thread
\* (stop() before run()) the call raises
StopJoin ==
  /\ stop_pc = "join"
  /\ thread # "alive"
  /\ stop_pc' = IF thread = "dead" THEN "returned" ELSE "raised"
  /\ UNCHANGED <<started, thread, monitor_pc, stop_seen_pc, current_lux, previous_lux,
                 previous_previous_time, previous_time, previous_time_origin,
                 current_time, fix_counter, files, written, write_faults, aggregation_vars, reader_vars, main_vars>>

MonitorInit ==
  /\ started = TRUE
  /\ thread = "none"
  /\ monitor_pc = "while"
  /\ stop_pc = "idle"
  /\ stop_seen_pc = "none"
  /\ current_lux = R(0)
  /\ previous_lux = R(0)
  /\ previous_previous_time = R(-1)
  /\ previous_time = R(-1)
  /\ previous_time_origin = "fixed"
  /\ current_time = R(-1)
  /\ fix_counter = 0
  /\ files = <<>>
  /\ written = <<>>
  /\ write_faults = 0

AggregationIdle ==
  /\ readings = <<>>
  /\ time_to_price_map = <<>>
  /\ shown = 0
  /\ previous_time_watts_map = None
  /\ calculated_data = None
  /\ full_scan = None
  /\ cycles = 0

\* no reading function has been called
ReaderIdle ==
  /\ reader_call = None
  /\ reader_returned = None

\* the first day of a run of main()
FirstDay == Day(R(StartClock))

\* main() has not begun: its locals, and the threads it will start
MainLocalsIdle ==
  /\ main_pc = "start"
  /\ done = FALSE
  /\ first_run = TRUE
  /\ date_today = FirstDay
  /\ tomorrow = FirstDay
  /\ cost_date = FirstDay
  /\ readings_csv_day = FirstDay
  /\ fix_queue = <<>>
  /\ fix_tmp = None
  /\ appended = {}
  /\ monitor_running = FALSE
  /\ monitor_stuck = FALSE
  /\ cost_thread = "none"
  /\ rollup_pc = "idle"
  /\ cost_values = [i \in 1..6 |-> 0]
  /\ past_costs = [i \in 1..6 |-> 0]
  /\ slots_read = 0
  /\ past_cost_and_power_thread = "none"
  /\ past_cost_and_power_thread_first_run = TRUE
  /\ window_pc = "idle"
  /\ window_threads = 0
  /\ window_target = FirstDay
  /\ cost_and_power_data = None
  /\ snapshot_day = None
  /\ map_dates = None

\* main() has not begun and the save directory is empty
MainIdle == MainLocalsIdle /\ log_files = <<>>

Init == MonitorInit /\ AggregationIdle /\ ReaderIdle /\ MainIdle

Next ==
  \/ Run
  \/ MonitorWhile
  \/ TickIdle
  \/ TickDebounce
  \/ TickPulse
  \/ TickGapSmoothing
  \/ StopSetFlag
  \/ StopJoin

Spec == Init /\ [][Next]_vars

(***************************************************************************)
(* The monitor with faults: the sensor read or a file write of a tick      *)
(* raises, and the except clause of the loop runs                          *)
(***************************************************************************)
\* update_sensor() or get_lux() raises: nothing has been assigned yet
TickSensorFault ==
  /\ InBody
  /\ monitor_pc' = "except"
  /\ UNCHANGED <<started, thread, stop_pc, stop_seen_pc, current_lux, previous_lux,
                 previous_previous_time, previous_time, previous_time_origin,
                 current_time, fix_counter, files, written, write_faults, aggregation_vars, reader_vars, main_vars>>

\* the number of writes the tick makes when none raises
writes_of_tick(lux, now) ==
  Len(detect_pulse(MonitorState, R(lux), R(now)).written) - Len(written)

\* a pulse is detected and the write number k + 1 of the tick raises: the
\* assignments and the writes made before it stay
TickWriteFault ==
  /\ InBody
  /\ write_faults < MaxWriteFaults
  /\ \E lux \in LuxValues, now \in NextInstants :
       /\ lux > 0
       /\ ~is_debounced(R(lux))
       /\ \E k \in 0..(writes_of_tick(lux, now) - 1) :
            SetMonitorState(detect_pulse([MonitorState EXCEPT !.budget = k],
                                         R(lux), R(now)))
       /\ current_lux' = R(lux)
  /\ monitor_pc' = "except"
  /\ write_faults' = write_faults + 1
  /\ UNCHANGED <<started, thread, stop_pc, stop_seen_pc, aggregation_vars, reader_vars, main_vars>>

\* lines 263-268: the error is logged, init_sensor builds a new sensor object
\* (the result is not stored), the thread sleeps and goes to the loop test
ExceptReinit ==
  /\ thread = "alive"
  /\ monitor_pc = "except"
  /\ monitor_pc' = "while"
  /\ UNCHANGED <<started, thread, stop_pc, stop_seen_pc, current_lux, previous_lux,
                 previous_previous_time, previous_time, previous_time_origin,
                 current_time, fix_counter, files, written, write_faults, aggregation_vars, reader_vars, main_vars>>

\* lines 263-268: LTR559() or a setter raises inside init_sensor; the exception
\* leaves the except clause and monitor(), and the thread ends
ExceptReinitRaises ==
  /\ thread = "alive"
  /\ monitor_pc = "except"
  /\ thread' = "dead"
  /\ UNCHANGED <<started, monitor_pc, stop_pc, stop_seen_pc, current_lux, previous_lux,
                 previous_previous_time, previous_time, previous_time_origin,
                 current_time, fix_counter, files, written, write_faults, aggregation_vars, reader_vars, main_vars>>

FaultNext ==
  \/ Run
  \/ MonitorWhile
  \/ TickIdle
  \/ TickDebounce
  \/ TickPulse
  \/ TickGapSmoothing
  \/ TickSensorFault
  \/ TickWriteFault
  \/ ExceptReinit
  \/ ExceptReinitRaises

\* a run in which nobody calls stop(): the stop flag is never set
FaultSpec == Init /\ [][FaultNext]_vars

(***************************************************************************)
(* energy_monitor.py: cost and power of a day                              *)
(***************************************************************************)
\* utils.prices.TIMES: slot i is the label of the half-hour i of the day
TIMES == 0..(SlotsPerDay - 1)

\* time_to_watts_map[time_str] = 0 for time_str in TIMES
ZeroWattsMap == [time_str \in TIMES |-> 0]

\* count_rows without the test "current_date == target_date": every row is counted
RECURSIVE count_rows_any_date(_, _, _)
count_rows_any_date(rows, target_date, time_to_watts_map) ==
  IF rows = <<>> THEN time_to_watts_map
  ELSE count_rows_any_date(Tail(rows), target_date,
         [time_to_watts_map EXCEPT ![Head(rows).unit.slot] = @ + 1])

\* "for index, row in df.iterrows()": rows of the target date counted by slot
RECURSIVE count_rows(_, _, _)
count_rows(rows, target_date, time_to_watts_map) ==
  IF rows = <<>> THEN time_to_watts_map
  ELSE LET row == Head(rows)
       IN count_rows(Tail(rows), target_date,
            IF row.unit.date = target_date
            THEN [time_to_watts_map EXCEPT ![row.unit.slot] = @ + 1]
            ELSE time_to_watts_map)

\* readings_df.tail(n)
tail(rows, n) == SubSeq(rows, Len(rows) - n + 1, Len(rows))

Max(a, b) == IF a >= b THEN a ELSE b

\* previous_wattage: the sum of previous_time_watts_map.values(), slots lo .. hi - 1
RECURSIVE sum_values(_, _, _)
sum_values(m, lo, hi) ==
  IF hi - lo = 1 THEN m[lo]
  ELSE LET mid == (lo + hi) \div 2
       IN sum_values(m, lo, mid) + sum_values(m, mid, hi)

\* the sums over "for time_str in TIMES" are exact, so they are kept as integer
\* numerators over the denominator every slot shares, and summed by halves
add_totals(x, y) == [power |-> x.power + y.power, cost |-> x.cost + y.cost]

\* lines 439-443: what one slot adds in calculate_total_cost_and_power_faster:
\* current_power = count / BLINKS_PER_KILOWATT in units of 1 / BLINKS_PER_KILOWATT,
\* current_power * price / 100 in units of 1 / (BLINKS_PER_KILOWATT * 100)
faster_slot(time_to_watts_map, prices, time_str) ==
  [power |-> time_to_watts_map[time_str],
   cost |-> IF time_str \in DOMAIN prices
            THEN time_to_watts_map[time_str] * prices[time_str]
            ELSE 0]

\* lines 437-446: "for time_str in TIMES", the slots lo .. hi - 1
RECURSIVE faster_totals(_, _, _, _)
faster_totals(time_to_watts_map, prices, lo, hi) ==
  IF hi - lo = 1 THEN faster_slot(time_to_watts_map, prices, lo)
  ELSE LET mid == (lo + hi) \div 2
           low == faster_totals(time_to_watts_map, prices, lo, mid)
           high == faster_totals(time_to_watts_map, prices, mid, hi)
       IN add_totals(low, high)

\* lines 410-424: the rows still to count
rows_to_count(readings_df, previous) ==
  IF previous = None THEN readings_df
  ELSE LET previous_wattage == sum_values(previous[1], 0, SlotsPerDay)
       IN IF previous_wattage = 0 THEN tail(readings_df, 0)
          ELSE tail(readings_df, Max(0, Len(readings_df) - previous_wattage))

\* readings_df, previous_time_watts_map and time_to_price_map are optional values
calculate_total_cost_and_power_faster(target_date, readings_df, previous, price_map) ==
  IF readings_df = None \/ price_map = None
  THEN [cost |-> R(0), power |-> R(0), average_cost_in_pence |-> R(0),
        time_to_watts_map |-> None]
  ELSE LET start == IF previous = None THEN ZeroWattsMap ELSE previous[1]
           time_to_watts_map ==
             count_rows(rows_to_count(readings_df[1], previous), target_date, start)
           totals == faster_totals(time_to_watts_map, price_map[1], 0, SlotsPerDay)
           power == Rat(totals.power, BLINKS_PER_KILOWATT)
           cost == Rat(totals.cost, BLINKS_PER_KILOWATT * 100)
       IN [cost |-> cost, power |-> power,
           average_cost_in_pence |->
             IF power = R(0) THEN R(0) ELSE RDiv(RMul(R(100), cost), power),
           time_to_watts_map |-> Some(time_to_watts_map)]

\* full_slot that leaves the power of a slot without a price out as well
full_slot_priced_only(time_to_watts_map, prices, time_str) ==
  [power |-> IF time_str \in DOMAIN prices THEN time_to_watts_map[time_str] ELSE 0,
   cost |-> IF time_str \in DOMAIN prices
            THEN time_to_watts_map[time_str] * prices[time_str] * 1000
            ELSE 0]

\* lines 279-287: what one slot adds in calculate_total_cost:
\* count * (1.0 / BLINKS_PER_KILOWATT) in units of 1 / BLINKS_PER_KILOWATT,
\* count * price * (1000.0 / BLINKS_PER_KILOWATT) / 100000 in units of
\* 1 / (BLINKS_PER_KILOWATT * 100000)
full_slot(time_to_watts_map, prices, time_str) ==
  [power |-> time_to_watts_map[time_str] * 1,
   cost |-> IF time_str \in DOMAIN prices
            THEN time_to_watts_map[time_str] * prices[time_str] * 1000
            ELSE 0]

\* lines 278-289: "for time_str in TIMES", the slots lo .. hi - 1
RECURSIVE full_totals(_, _, _, _)
full_totals(time_to_watts_map, prices, lo, hi) ==
  IF hi - lo = 1 THEN full_slot(time_to_watts_map, prices, lo)
  ELSE LET mid == (lo + hi) \div 2
           low == full_totals(time_to_watts_map, prices, lo, mid)
           high == full_totals(time_to_watts_map, prices, mid, hi)
       IN add_totals(low, high)

\* readings_df is the optional frame of the day's file, prices the day's price table
calculate_total_cost(target_date, readings_df, prices) ==
  IF readings_df = None \/ Len(readings_df[1]) < 2
  THEN [cost |-> R(0), power |-> R(0)]
  ELSE LET totals == full_totals(count_rows(readings_df[1], target_date, ZeroWattsMap),
                                  prices, 0, SlotsPerDay)
       IN [cost |-> Rat(totals.cost, BLINKS_PER_KILOWATT * 100000),
           power |-> Rat(totals.power, BLINKS_PER_KILOWATT)]

(***************************************************************************)
(* The aggregation cycles over a growing log                               *)
(***************************************************************************)
\* the day the figures are computed for
TargetDate == Day(R(StartClock))

\* the slots and the slot dates of the rows of a log
UsedSlots == {1, SlotsPerDay - 1}
LogRows == {[unit |-> [date |-> d, slot |-> s]] : d \in {TargetDate, TargetDate + 1}, s \in UsedSlots}
Logs == UNION {[1..n -> LogRows] : n \in 0..MaxLen}

\* price tables: complete, partial and empty ones, in pence
PriceTables == {[s \in D |-> 10 + 5 * (s % 3)] : D \in {TIMES, TIMES \ {1}, {}}}

\* one frame of the main loop: the snapshot grows and the totals are brought up to date
AggregationCycle ==
  /\ cycles < MaxCycles
  /\ \E k \in shown..Len(readings) :
       LET data == calculate_total_cost_and_power_faster(TargetDate,
                     Some(SubSeq(readings, 1, k)), previous_time_watts_map,
                     Some(time_to_price_map))
       IN /\ shown' = k
          /\ calculated_data' = Some(data)
          /\ previous_time_watts_map' = data.time_to_watts_map
  /\ cycles' = cycles + 1
  /\ UNCHANGED <<readings, time_to_price_map, full_scan, monitor_vars, reader_vars, main_vars>>

\* calculate_total_cost over the whole log
FullScan ==
  /\ full_scan = None
  /\ full_scan' = Some(calculate_total_cost(TargetDate, Some(readings), time_to_price_map))
  /\ UNCHANGED <<readings, time_to_price_map, shown, previous_time_watts_map,
                 calculated_data, cycles, monitor_vars, reader_vars, main_vars>>

AggregationInit ==
  /\ MonitorInit
  /\ ReaderIdle
  /\ MainIdle
  /\ readings \in Logs
  /\ time_to_price_map \in PriceTables
  /\ shown = 0
  /\ previous_time_watts_map = None
  /\ calculated_data = None
  /\ full_scan = None
  /\ cycles = 0

AggregationNext ==
  \/ AggregationCycle
  \/ FullScan

AggregationSpec == AggregationInit /\ [][AggregationNext]_vars

(***************************************************************************)
(* energy_monitor.py: the trailing 5, 30 and 60 minutes                    *)
(***************************************************************************)
\* the seconds of one unit of time (a half-hour)
SecondsPerUnit == 1800
Seconds(n) == Rat(n, SecondsPerUnit)

\* lines 145-155: one line of the file read backwards
count_line(stats, current_timestamp, from_time) ==
  [five |-> stats.five
         + (IF RLt(RSub(from_time, Seconds(300)), current_timestamp) THEN 1 ELSE 0),
   thirty |-> stats.thirty
         + (IF RLt(RSub(from_time, Seconds(1800)), current_timestamp) THEN 1 ELSE 0),
   sixty |-> stats.sixty
         + (IF RLt(RSub(from_time, Seconds(3600)), current_timestamp) THEN 1 ELSE 0)]

\* scan_backwards that stops after the first line older than the half-hour
RECURSIVE scan_stops_at_half_hour(_, _, _, _)
scan_stops_at_half_hour(rows, i, from_time, stats) ==
  IF i = 0 THEN stats
  ELSE LET current_timestamp == rows[i].epoch_time
           counted == count_line(stats, current_timestamp, from_time)
       IN IF RLt(current_timestamp, RSub(from_time, Seconds(1800)))
          THEN counted
          ELSE scan_stops_at_half_hour(rows, i - 1, from_time, counted)

\* lines 141-159: "for line in f" of FileReadBackwards, from line i down; the scan
\* stops after the first line older than the hour
RECURSIVE scan_backwards(_, _, _, _)
scan_backwards(rows, i, from_time, stats) ==
  IF i = 0 THEN stats
  ELSE LET current_timestamp == rows[i].epoch_time
           counted == count_line(stats, current_timestamp, from_time)
       IN IF RLt(current_timestamp, RSub(from_time, Seconds(3600)))
          THEN counted
          ELSE scan_backwards(rows, i - 1, from_time, counted)

\* get_power_stats_from_past with the scan that stops at the half-hour
power_stats_until_half_hour(from_time, rows) ==
  LET stats == scan_stops_at_half_hour(rows, Len(rows), from_time,
                                       [five |-> 0, thirty |-> 0, sixty |-> 0])
  IN [power_last_five_minutes |-> Rat(stats.five, BLINKS_PER_KILOWATT),
      power_last_thirty_minutes |-> Rat(stats.thirty, BLINKS_PER_KILOWATT),
      power_last_sixty_minutes |-> Rat(stats.sixty, BLINKS_PER_KILOWATT)]

\* every count is a sum of 1.0 / blinks_per_kilowatt
get_power_stats_from_past(from_time, rows) ==
  LET stats == scan_backwards(rows, Len(rows), from_time,
                              [five |-> 0, thirty |-> 0, sixty |-> 0])
  IN [power_last_five_minutes |-> Rat(stats.five, BLINKS_PER_KILOWATT),
      power_last_thirty_minutes |-> Rat(stats.thirty, BLINKS_PER_KILOWATT),
      power_last_sixty_minutes |-> Rat(stats.sixty, BLINKS_PER_KILOWATT)]

\* rows_after with ">=" for ">"
rows_after_or_at(rows, after_timestamp) ==
  SelectSeq(rows, LAMBDA row : RLe(after_timestamp, row.epoch_time))

\* filtered_readings_df.loc[filtered_readings_df["Epoch Time"] > after_timestamp]
rows_after(rows, after_timestamp) ==
  SelectSeq(rows, LAMBDA row : RLt(after_timestamp, row.epoch_time))

\* lines 348-381: the cost and the power of one window, from its filtered rows
window_cost_and_power(filtered, target_date, prices) ==
  IF Len(filtered) < 2 THEN [cost |-> R(0), power |-> R(0)]
  ELSE LET totals == full_totals(count_rows(filtered, target_date, ZeroWattsMap),
                                  prices, 0, SlotsPerDay)
       IN [cost |-> Rat(totals.cost, BLINKS_PER_KILOWATT * 100000),
           power |-> Rat(totals.power, BLINKS_PER_KILOWATT)]

\* lines 315-323: the zero state written for an absent or short log
ZeroReturnData ==
  [five_mins_cost |-> R(0), five_mins_power |-> R(0),
   thirty_mins_cost |-> R(0), thirty_mins_power |-> R(0),
   sixty_mins_cost |-> R(0), sixty_mins_power |-> R(0),
   readings_df |-> None, time_to_price_map |-> None]

\* a dict with the entries of update put over those of return_data
dict_update(return_data, update) == update @@ return_data

\* readings_df is the optional frame of the day's file and prices the day's price
\* table; return_data is the dict the caller passed, as the function leaves it, and
\* raised tells whether the call ended with an exception.  There is no return after
\* the zero state: the function goes on to line 325, and with no frame line 347
\* raises AttributeError on None.
calculate_cost_and_power_after_five_thirty_sixty_minutes(current_timestamp, target_date, readings_df, prices) ==
  LET d1 == IF readings_df = None \/ Len(readings_df[1]) < 2
            THEN ZeroReturnData ELSE <<>>
      d2 == dict_update(d1, [readings_df |-> readings_df,
                             time_to_price_map |-> Some(prices)])
  IN IF readings_df = None THEN [return_data |-> d2, raised |-> TRUE]
     ELSE LET sixty == rows_after(readings_df[1], RSub(current_timestamp, Seconds(3600)))
              thirty == rows_after(sixty, RSub(current_timestamp, Seconds(1800)))
              five == rows_after(thirty, RSub(current_timestamp, Seconds(300)))
              s == window_cost_and_power(sixty, target_date, prices)
              t == window_cost_and_power(thirty, target_date, prices)
              f == window_cost_and_power(five, target_date, prices)
          IN [return_data |->
                dict_update(d2, [sixty_mins_cost |-> s.cost, sixty_mins_power |-> s.power,
                                 thirty_mins_cost |-> t.cost, thirty_mins_power |-> t.power,
                                 five_mins_cost |-> f.cost, five_mins_power |-> f.power]),
              raised |-> FALSE]

(***************************************************************************)
(* Calls of the reading functions on the files and tables they can meet    *)
(***************************************************************************)
\* the moment the figures are asked for
NowInstant == R(StartClock + 2)

\* the ages of the rows of a log, in units of ten seconds before NowInstant
RowAges == {400, 360, 200, 40, 30, 20, 1}

\* a row written by the monitor: its epoch time, and the slot date and slot time
TimedRows ==
  {[epoch_time |-> RSub(NowInstant, Seconds(10 * age)),
    unit |-> [date |-> d, slot |-> SlotOfDay(RSub(NowInstant, Seconds(10 * age)))]] :
     age \in RowAges, d \in {TargetDate, TargetDate + 1}}

\* the logs: the rows are in append order, which is the order of their epoch times
TimedLogs ==
  {log \in UNION {[1..n -> TimedRows] : n \in 0..MaxLen} :
     \A i \in 1..(Len(log) - 1) : RLe(log[i].epoch_time, log[i + 1].epoch_time)}

\* get_power_stats_from_past on a day file
CallPowerStats ==
  /\ reader_call = None
  /\ \E log \in TimedLogs :
       /\ reader_call' = Some([function |-> "get_power_stats_from_past",
                               from_time |-> NowInstant, day_file |-> Some(log)])
       /\ reader_returned' = Some(get_power_stats_from_past(NowInstant, log))
  /\ UNCHANGED <<monitor_vars, aggregation_vars, main_vars>>

\* calculate_cost_and_power_after_five_thirty_sixty_minutes on a day file, absent or
\* not, with an empty return_data
CallWindows ==
  /\ reader_call = None
  /\ \E day_file \in {None} \cup {Some(log) : log \in TimedLogs}, prices \in PriceTables :
       /\ reader_call' =
            Some([function |-> "calculate_cost_and_power_after_five_thirty_sixty_minutes",
                  from_time |-> NowInstant, day_file |-> day_file, prices |-> prices])
       /\ reader_returned' =
            Some(calculate_cost_and_power_after_five_thirty_sixty_minutes(
                   NowInstant, TargetDate, day_file, prices))
  /\ UNCHANGED <<monitor_vars, aggregation_vars, main_vars>>

\* calculate_total_cost_call that fetches the price table before it looks at the log
total_cost_call_prices_first(target_date, readings_df, prices) ==
  [cost |-> calculate_total_cost(target_date, readings_df, prices).cost,
   power |-> calculate_total_cost(target_date, readings_df, prices).power,
   price_reads |-> 1]

\* lines 255-291 with their effect on the price source: get_time_to_price_map_for_day
\* (line 262) is reached only past the return of line 260
calculate_total_cost_call(target_date, readings_df, prices) ==
  [cost |-> calculate_total_cost(target_date, readings_df, prices).cost,
   power |-> calculate_total_cost(target_date, readings_df, prices).power,
   price_reads |-> IF readings_df = None \/ Len(readings_df[1]) < 2 THEN 0 ELSE 1]

\* calculate_total_cost_and_power_faster_call that aliases and counts before the
\* test of line 407
faster_call_counts_first(target_date, readings_df, previous, price_map) ==
  [data |-> calculate_total_cost_and_power_faster(target_date, readings_df, previous,
                                                  price_map),
   previous_after |->
     IF previous = None THEN None
     ELSE Some(count_rows(IF readings_df = None THEN <<>> ELSE readings_df[1],
                          target_date, previous[1]))]

\* lines 403-453 with their effect on the dict passed as previous_time_watts_map:
\* past line 408 the dict is aliased (line 419) and counted into (line 432), so
\* after the call it holds the counts the call returns
calculate_total_cost_and_power_faster_call(target_date, readings_df, previous, price_map) ==
  LET data == calculate_total_cost_and_power_faster(target_date, readings_df, previous,
                                                    price_map)
  IN [data |-> data,
      previous_after |->
        IF readings_df = None \/ price_map = None \/ previous = None THEN previous
        ELSE data.time_to_watts_map]

\* calculate_total_cost on a day file, absent or not
CallTotalCost ==
  /\ reader_call = None
  /\ \E day_file \in {None} \cup {Some(log) : log \in Logs}, prices \in PriceTables :
       /\ reader_call' = Some([function |-> "calculate_total_cost",
                               day_file |-> day_file, prices |-> prices])
       /\ reader_returned' =
            Some(calculate_total_cost_call(TargetDate, day_file, prices))
  /\ UNCHANGED <<monitor_vars, aggregation_vars, main_vars>>

\* the maps a caller can hold from an earlier call
PreviousMaps ==
  {None, Some(ZeroWattsMap), Some([ZeroWattsMap EXCEPT ![1] = 1])}

\* calculate_total_cost_and_power_faster on a snapshot and a price table, either of
\* which may be None
CallFaster ==
  /\ reader_call = None
  /\ \E readings_df \in {None} \cup {Some(log) : log \in Logs},
        price_map \in {None} \cup {Some(prices) : prices \in PriceTables},
        previous \in PreviousMaps :
       /\ reader_call' = Some([function |-> "calculate_total_cost_and_power_faster",
                               readings_df |-> readings_df, price_map |-> price_map,
                               previous |-> previous])
       /\ reader_returned' =
            Some(calculate_total_cost_and_power_faster_call(TargetDate, readings_df,
                                                            previous, price_map))
  /\ UNCHANGED <<monitor_vars, aggregation_vars, main_vars>>

(***************************************************************************)
(* The reading functions on a file whose last line is partly written       *)
(***************************************************************************)
\* monitor.py, lines 120-130: the text of a record, "lux,epoch,time,datetime,origin",
\* in pieces: the epoch time is its integer digits but the last three, those three,
\* and the fraction; the date-time is the date and the time
LineTokens ==
  <<"lux", ",", "epoch", "epoch", "epoch", ",", "time", ",", "datetime", "datetime",
    ",", "origin">>

\* line.split(",")
RECURSIVE split(_)
split(tokens) ==
  IF tokens = <<>> THEN <<<<>>>>
  ELSE LET rest == split(Tail(tokens))
       IN IF Head(tokens) = "," THEN <<<<>>>> \o rest
          ELSE <<<<Head(tokens)>> \o Head(rest)>> \o Tail(rest)

\* the fields of a line of which the first flushed tokens are in the file
fields_of(line) == split(SubSeq(LineTokens, 1, line.flushed))

WholeSeconds(t) == (t.n * SecondsPerUnit) \div t.d

\* float(text) of the epoch field of a line: None for the ValueError of an empty
\* text, else the number its digits spell
float_of(field, row) ==
  IF Len(field) = 0 THEN None
  ELSE IF Len(field) = 1 THEN Some(Seconds(WholeSeconds(row.epoch_time) \div 1000))
  ELSE IF Len(field) = 2 THEN Some(Seconds(WholeSeconds(row.epoch_time)))
  ELSE Some(row.epoch_time)

\* lines 141-160 on the lines of a file, the last of them first
RECURSIVE scan_lines_backwards(_, _, _, _)
scan_lines_backwards(lines, i, from_time, stats) ==
  IF i = 0 THEN [stats |-> stats, raised |-> FALSE]
  ELSE LET split_line == fields_of(lines[i])
       IN IF Len(split_line) > 1
          THEN LET current_timestamp == float_of(split_line[2], lines[i].row)
               IN IF current_timestamp = None THEN [stats |-> stats, raised |-> TRUE]
                  ELSE LET counted == count_line(stats, current_timestamp[1], from_time)
                       IN IF RLt(current_timestamp[1], RSub(from_time, Seconds(3600)))
                          THEN [stats |-> counted, raised |-> FALSE]
                          ELSE scan_lines_backwards(lines, i - 1, from_time, counted)
          ELSE [stats |-> stats, raised |-> FALSE]

\* get_power_stats_from_past on the lines of a file: the counts, and whether the
\* call ended with an exception
get_power_stats_from_lines(from_time, lines) ==
  scan_lines_backwards(lines, Len(lines), from_time,
                       [five |-> 0, thirty |-> 0, sixty |-> 0])

\* lines 99-109: the epoch fields of the last two lines, the last line first
RECURSIVE live_energy_times(_, _, _)
live_energy_times(lines, i, index) ==
  IF i = 0 \/ index = 2 THEN <<>>
  ELSE LET strip_and_split_row == fields_of(lines[i])
       IN IF Len(strip_and_split_row) > 1
          THEN <<float_of(strip_and_split_row[2], lines[i].row)>>
               \o live_energy_times(lines, i - 1, index + 1)
          ELSE <<>>

\* live_energy_time_reading: every exception is caught and leaves the reading 0
live_energy_time_reading(lines) ==
  LET times == live_energy_times(lines, Len(lines), 0)
  IN IF Len(times) # 2 \/ times[1] = None \/ times[2] = None
        \/ times[1][1] = times[2][1]
     THEN [reading |-> R(0), raised |-> FALSE]
     ELSE [reading |-> RDiv(Rat(3600 * 1000, BLINKS_PER_KILOWATT),
                            RMul(RSub(times[1][1], times[2][1]), R(SecondsPerUnit))),
           raised |-> FALSE]

\* pd.read_csv of lines 205-216: a line with fewer fields is a row like any other;
\* its Datetime is the text read, partial perhaps, or NaN for a missing field
get_readings_df_from_path(lines) ==
  [i \in DOMAIN lines |->
     LET fields == fields_of(lines[i])
     IN [unit |-> lines[i].row.unit,
         Datetime |-> IF Len(fields) < 4 \/ Len(fields[4]) = 0 THEN "NaN"
                      ELSE IF Len(fields[4]) = 1 THEN "partial"
                      ELSE "text"]]

\* calculate_total_cost on that frame: datetime.strptime of line 270 raises TypeError
\* for NaN and ValueError for a partial text
calculate_total_cost_of_lines(target_date, lines, prices) ==
  LET readings_df == get_readings_df_from_path(lines)
  IN IF Len(readings_df) < 2
     THEN [cost |-> R(0), power |-> R(0), raised |-> FALSE]
     ELSE IF \E i \in DOMAIN readings_df : readings_df[i].Datetime # "text"
     THEN [cost |-> R(0), power |-> R(0), raised |-> TRUE]
     ELSE LET total == calculate_total_cost(target_date, Some(readings_df), prices)
          IN [cost |-> total.cost, power |-> total.power, raised |-> FALSE]

\* the files whose last line the monitor is still writing: no or one whole line, and
\* the first tokens of the line of a newer row
PartialFiles ==
  {[i \in 1..Len(log) |-> [row |-> log[i], flushed |-> Len(LineTokens)]]
     \o <<[row |-> last, flushed |-> k]>> :
       log \in {l \in TimedLogs : Len(l) <= 1}, last \in TimedRows,
       k \in 1..(Len(LineTokens) - 1)}

OrderedLines(lines) ==
  \A i \in 1..(Len(lines) - 1) : RLe(lines[i].row.epoch_time, lines[i + 1].row.epoch_time)

\* one of the reading functions is called while the monitor writes a record
CallOnPartialLine ==
  /\ reader_call = None
  /\ \E lines \in {l \in PartialFiles : OrderedLines(l)},
        function \in {"get_power_stats_from_past", "live_energy_time_reading",
                      "calculate_total_cost"} :
       /\ reader_call' = Some([function |-> function, from_time |-> NowInstant,
                               lines |-> lines])
       /\ reader_returned' =
            Some(CASE function = "get_power_stats_from_past" ->
                        get_power_stats_from_lines(NowInstant, lines)
                   [] function = "live_energy_time_reading" ->
                        live_energy_time_reading(lines)
                   [] OTHER ->
                        calculate_total_cost_of_lines(TargetDate, lines,
                                                      [s \in TIMES |-> 10]))
  /\ UNCHANGED <<monitor_vars, aggregation_vars, main_vars>>

(***************************************************************************)
(* utils/file.py: the repair of the two latest files                       *)
(***************************************************************************)
\* the lines a file can hold after a bad restart: a record; a line with 4 fields;
\* a line with 5 fields and a character beyond U+7F; a line with a byte that is
\* no UTF-8 text
LineKinds == {"record", "four_fields", "not_ascii", "not_utf8"}

\* len(line.split(",")) == 5 and is_ascii(line)
is_valid_line(line) == line.kind = "record"

\* fix_text_corruption: the lines of the file after the call, and whether it raised.
\* open(filename, "r") decodes the text as it is read: an undecodable byte raises
\* UnicodeDecodeError in the loop, before shutil.copyfile
fix_text_corruption(lines) ==
  IF \E i \in DOMAIN lines : lines[i].kind = "not_utf8"
  THEN [lines |-> lines, raised |-> TRUE]
  ELSE [lines |-> SelectSeq(lines, is_valid_line), raised |-> FALSE]

\* fix_data_corruption_of_latest_two_files: directory is the files in the order of
\* their modification times, the latest last; range(min(2, len(paths))) takes the
\* latest first and an exception ends the loop
fix_data_corruption_of_latest_two_files(directory) ==
  LET n == Len(directory)
      first == IF n >= 1 THEN fix_text_corruption(directory[n])
               ELSE [lines |-> <<>>, raised |-> FALSE]
      second == IF n >= 2 /\ ~first.raised THEN fix_text_corruption(directory[n - 1])
                ELSE [lines |-> <<>>, raised |-> FALSE]
  IN [directory |->
        [i \in 1..n |-> IF i = n THEN first.lines
                        ELSE IF i = n - 1 /\ ~first.raised THEN second.lines
                        ELSE directory[i]],
      raised |-> first.raised \/ second.raised]

\* files of up to two lines; a line is known by its place in the file
FilesToFix ==
  UNION {[1..n -> LineKinds] : n \in 0..2}

WithPlaces(kinds) == [i \in DOMAIN kinds |-> [kind |-> kinds[i], place |-> i]]

\* the repair is run on a directory of up to three files
CallFix ==
  /\ reader_call = None
  /\ \E contents \in UNION {[1..n -> FilesToFix] : n \in 0..3} :
       LET directory == [i \in DOMAIN contents |-> WithPlaces(contents[i])]
       IN /\ reader_call' = Some([function |-> "fix_data_corruption_of_latest_two_files",
                                  directory |-> directory])
          /\ reader_returned' = Some(fix_data_corruption_of_latest_two_files(directory))
  /\ UNCHANGED <<monitor_vars, aggregation_vars, main_vars>>

(***************************************************************************)
(* utils/prices.py: get_energy_prices                                      *)
(***************************************************************************)
\* get_offline_prices: the table of the offline file of the tariff
OfflinePrices == [time_str \in TIMES |-> 30]

\* the tables the API can answer with: a whole day, a part of it, nothing
ApiPrices == {[time_str \in D |-> 20 + (time_str % 2)] : D \in {TIMES, TIMES \ {1}, {}}}

\* get_energy_prices that returns the table of any file of the day it can read
energy_prices_of_any_file(offline, persisted, api, conversion_raises) ==
  IF offline THEN [prices |-> OfflinePrices, api_calls |-> 0]
  ELSE IF persisted.state = "unreadable" THEN [prices |-> OfflinePrices, api_calls |-> 0]
  ELSE IF persisted.state = "file" THEN [prices |-> persisted.prices, api_calls |-> 0]
  ELSE IF api.state = "raises" \/ DOMAIN api.prices = {} \/ conversion_raises
  THEN [prices |-> OfflinePrices, api_calls |-> 1]
  ELSE [prices |-> api.prices, api_calls |-> 1]

\* lines 293-343.  persisted is the file of the day: "absent", "unreadable" (the
\* read raises) or a "file" with its table; api is the answer of the API: "raises"
\* or an "answer" with its prices; conversion_raises tells whether
\* api_prices_to_dict raises.  The result is the
\* table returned and the number of requests sent to the API.
get_energy_prices(offline, persisted, api, conversion_raises) ==
  IF offline THEN [prices |-> OfflinePrices, api_calls |-> 0]
  ELSE IF persisted.state = "unreadable" THEN [prices |-> OfflinePrices, api_calls |-> 0]
  ELSE IF persisted.state = "file" /\ Cardinality(DOMAIN persisted.prices) = SlotsPerDay
  THEN [prices |-> persisted.prices, api_calls |-> 0]
  ELSE IF api.state = "raises" \/ DOMAIN api.prices = {} \/ conversion_raises
  THEN [prices |-> OfflinePrices, api_calls |-> 1]
  ELSE [prices |-> api.prices, api_calls |-> 1]

\* get_energy_prices for a day, with every state of the file and of the API
CallGetEnergyPrices ==
  /\ reader_call = None
  /\ \E offline \in BOOLEAN, conversion_raises \in BOOLEAN,
        persisted \in {[state |-> st, prices |-> <<>>] : st \in {"absent", "unreadable"}}
                      \cup {[state |-> "file", prices |-> p] : p \in PriceTables},
        api \in {[state |-> "raises", prices |-> <<>>]}
                \cup {[state |-> "answer", prices |-> p] : p \in ApiPrices} :
       /\ reader_call' = Some([function |-> "get_energy_prices", offline |-> offline,
                               persisted |-> persisted, api |-> api,
                               conversion_raises |-> conversion_raises])
       /\ reader_returned' =
            Some(get_energy_prices(offline, persisted, api, conversion_raises))
  /\ UNCHANGED <<monitor_vars, aggregation_vars, main_vars>>

ReaderInit == MonitorInit /\ AggregationIdle /\ ReaderIdle /\ MainIdle

ReaderNext ==
  \/ CallPowerStats
  \/ CallWindows
  \/ CallTotalCost
  \/ CallFaster
  \/ CallOnPartialLine
  \/ CallFix
  \/ CallGetEnergyPrices

ReaderSpec == ReaderInit /\ [][ReaderNext]_vars

(***************************************************************************)
(* energy_monitor.py: daily_cost_thread, called once on a directory of     *)
(* logs and a directory of cached figures                                  *)
(***************************************************************************)
\* the day the rollup is computed on; the days before it are counted back from it
RollupDay == 32

\* range(a, b) of Python
range(a, b) == a..(b - 1)

\* the days of the logs and of the cache files
PastDays == {RollupDay - i : i \in range(1, 32)}

\* calculate_total_cost of a day as the thread sees it: it raises, or it returns
\* the figures of the full scan of the log, (0, 0) when there is no log
full_scan_of_day(day, logs, raises_on) ==
  IF day = raises_on THEN [state |-> "raises", cost |-> 0, power |-> 0]
  ELSE IF day \notin logs THEN [state |-> "figures", cost |-> 0, power |-> 0]
  ELSE [state |-> "figures", cost |-> 3 * day, power |-> day]

\* the cache file of a day written by an earlier run: two lines with the figures
\* of that run, or a file that cannot be read as two floats
cache_file_of_day(day, malformed) ==
  IF day = malformed THEN [state |-> "malformed", cost |-> 0, power |-> 0]
  ELSE [state |-> "figures", cost |-> 100 + day, power |-> 50 + day]

\* cached_or_calculated that scans the log of the day again whatever the cache holds
calculated_every_time(st, day, logs, raises_on) ==
  LET scan == full_scan_of_day(day, logs, raises_on)
  IN IF st.raised THEN st
     ELSE IF scan.state = "raises" THEN [st EXCEPT !.raised = TRUE]
     ELSE [st EXCEPT !.current = [cost |-> scan.cost, power |-> scan.power],
                     !.cache = [d \in DOMAIN st.cache \cup {day} |->
                                  IF d = day THEN scan ELSE st.cache[d]]]

\* lines 480-494, 514-531, 553-570: the figures of a day are read from its cache
\* file when there is one, and calculated and written to the cache otherwise;
\* st.raised tells that an exception is on its way to the except clause
cached_or_calculated(st, day, logs, raises_on) ==
  LET scan == full_scan_of_day(day, logs, raises_on)
  IN IF st.raised THEN st
     ELSE IF day \in DOMAIN st.cache
     THEN IF st.cache[day].state = "malformed" THEN [st EXCEPT !.raised = TRUE]
          ELSE [st EXCEPT !.current = [cost |-> st.cache[day].cost,
                                       power |-> st.cache[day].power]]
     ELSE IF scan.state = "raises" THEN [st EXCEPT !.raised = TRUE]
     ELSE [st EXCEPT !.current = [cost |-> scan.cost, power |-> scan.power],
                     !.cache = st.cache @@ (day :> scan)]

RECURSIVE add_days(_, _, _, _, _, _)
\* lines 511-534 and 550-573: for i in reversed(range(first, i + 1)) the figures
\* of the day i days back are added to the totals
add_days(st, i, first, date_of_today, logs, raises_on) ==
  IF i < first \/ st.raised THEN st
  ELSE LET day == cached_or_calculated(st, date_of_today - i, logs, raises_on)
           added == IF day.raised THEN day
                    ELSE [day EXCEPT !.cost = @ + day.current.cost,
                                     !.power = @ + day.current.power]
       IN add_days(added, i - 1, first, date_of_today, logs, raises_on)

\* lines 478-582: the thread on the day date_of_today with the list values; the
\* result is the list and the cache after the thread has ended
daily_cost_thread(date_of_today, values, logs, cache, raises_on) ==
  LET start == [cache |-> cache, raised |-> FALSE, cost |-> 0, power |-> 0,
                current |-> [cost |-> 0, power |-> 0]]
      yesterday == cached_or_calculated(start, date_of_today - 1, logs, raises_on)
      exist_week_readings == \A i \in range(1, 8) : (date_of_today - i) \in logs
      week == IF exist_week_readings
              THEN add_days([yesterday EXCEPT !.cost = yesterday.current.cost,
                                              !.power = yesterday.current.power],
                            7, 2, date_of_today, logs, raises_on)
              ELSE yesterday
      exist_month_readings == \A i \in range(1, 32) : (date_of_today - i) \in logs
      month == IF exist_month_readings
               THEN add_days(week, 31, 8, date_of_today, logs, raises_on)
               ELSE [week EXCEPT !.cost = 0, !.power = 0]
  IN [cost_values |-> IF month.raised THEN values
                      ELSE <<yesterday.current.cost, yesterday.current.power,
                             week.cost, week.power, month.cost, month.power>>,
      cache |-> month.cache]

\* the directories of logs the thread is called on: the logs of the most recent
\* days, or of every day but one
LogDirectories ==
  {{RollupDay - i : i \in range(1, k + 1)} : k \in 0..31}
    \cup {PastDays \ {RollupDay - i} : i \in range(1, 32)}

\* the days that have a cache file: the most recent days, or one day
CachedDays ==
  {{RollupDay - i : i \in range(1, k + 1)} : k \in 0..31}
    \cup {{RollupDay - i} : i \in range(1, 32)}

\* no day, yesterday, a day of the week and a day of the month
DaysThatFail == {0, RollupDay - 1, RollupDay - 5, RollupDay - 20}

\* daily_cost_thread is called with cost_values = [0] * 6, as main() does at 955
CallDailyCost ==
  /\ reader_call = None
  /\ \E logs \in LogDirectories, cached \in CachedDays,
        raises_on \in DaysThatFail, malformed \in DaysThatFail :
       LET cache == [day \in cached |-> cache_file_of_day(day, malformed)]
       IN /\ reader_call' = Some([function |-> "daily_cost_thread", logs |-> logs,
                                  cache |-> cache, raises_on |-> raises_on])
          /\ reader_returned' =
               Some(daily_cost_thread(RollupDay, [i \in 1..6 |-> 0], logs, cache, raises_on))
  /\ UNCHANGED <<monitor_vars, aggregation_vars, main_vars>>

DailyCostSpec == ReaderInit /\ [][CallDailyCost]_vars

(***************************************************************************)
(* energy_monitor.py: main(), the daily rollup thread, the trailing-window *)
(* thread, and the monitor thread as main() sees it                        *)
(***************************************************************************)
\* the day changes this many times in a run
MaxDays == 1
\* the monitor thread appends this many records in a run
MaxAppended == 1

other_vars == <<monitor_vars, aggregation_vars, reader_vars>>

\* a record left in the first day's file by an earlier run
OldRecord == [day |-> FirstDay, id |-> 0]

HasReadings(fs, day) == day \in DOMAIN fs /\ fs[day] # {}

\* sorted(Path(data_directory).iterdir(), key=os.path.getmtime), reversed, and the
\* first two of them: the files are modified in the order of their days
RECURSIVE latest_files(_, _)
latest_files(days, n) ==
  IF n = 0 \/ days = {} THEN <<>>
  ELSE LET latest == CHOOSE d \in days : \A e \in days : e <= d
       IN <<latest>> \o latest_files(days \ {latest}, n - 1)

\* lines 844-845: the monitor thread is started before anything else
MainStart ==
  /\ main_pc = "start"
  /\ main_pc' = "fix"
  /\ monitor_running' = TRUE
  /\ fix_queue' = latest_files(DOMAIN log_files, 2)
  /\ UNCHANGED <<done, first_run, tomorrow, cost_date, readings_csv_day, date_today,
                 log_files, fix_tmp, appended, monitor_stuck, rollup_vars, window_vars,
                 total_vars, other_vars>>

\* utils/file.py, fix_text_corruption: the good lines of the file go to tmp.txt
FixRead ==
  /\ main_pc = "fix"
  /\ fix_queue # <<>>
  /\ fix_tmp = None
  /\ fix_tmp' = Some(log_files[Head(fix_queue)])
  /\ UNCHANGED <<frame_vars, date_today, log_files, fix_queue, appended,
                 monitor_running, monitor_stuck, rollup_vars, window_vars, total_vars,
                 other_vars>>

\* utils/file.py, fix_text_corruption: shutil.copyfile(tmp_filename, filename)
FixCopy ==
  /\ main_pc = "fix"
  /\ fix_tmp # None
  /\ log_files' = [log_files EXCEPT ![Head(fix_queue)] = fix_tmp[1]]
  /\ fix_queue' = Tail(fix_queue)
  /\ fix_tmp' = None
  /\ UNCHANGED <<frame_vars, date_today, appended, monitor_running, monitor_stuck,
                 rollup_vars, window_vars, total_vars, other_vars>>

\* lines 859-899: the locals of main() before the loop
MainLocals ==
  /\ main_pc = "fix"
  /\ fix_queue = <<>>
  /\ main_pc' = "loop_test"
  /\ tomorrow' = date_today + 1
  /\ UNCHANGED <<done, first_run, cost_date, readings_csv_day, date_today, file_vars,
                 rollup_vars, window_vars, total_vars, other_vars>>

\* the monitor thread appends a record to the file of the day
MonitorAppends ==
  /\ monitor_running
  /\ ~monitor_stuck
  /\ Cardinality(appended) < MaxAppended
  /\ LET record == [day |-> date_today, id |-> Cardinality(appended) + 1]
     IN /\ appended' = appended \cup {record}
        /\ log_files' = IF date_today \in DOMAIN log_files
                        THEN [log_files EXCEPT ![date_today] = @ \cup {record}]
                        ELSE log_files @@ (date_today :> {record})
  /\ UNCHANGED <<frame_vars, date_today, fix_queue, fix_tmp, monitor_running,
                 monitor_stuck, rollup_vars, window_vars, total_vars, other_vars>>

\* the sensor read of the monitor thread blocks and never returns
MonitorBlocks ==
  /\ monitor_running
  /\ ~monitor_stuck
  /\ monitor_stuck' = TRUE
  /\ UNCHANGED <<frame_vars, date_today, log_files, fix_queue, fix_tmp, appended,
                 monitor_running, rollup_vars, window_vars, total_vars, other_vars>>

RollupAlive == rollup_pc \in {"computing", "writing"}

\* midnight passes.  A frame and a run of the rollup thread are shorter than a day:
\* the day changes again only after the rollover step has seen the change.
DayTick ==
  /\ main_pc \notin {"start", "fix", "stop", "stopped"}
  /\ date_today < FirstDay + MaxDays
  /\ date_today < tomorrow
  /\ ~RollupAlive
  /\ date_today' = date_today + 1
  /\ UNCHANGED <<frame_vars, file_vars, rollup_vars, window_vars, total_vars, other_vars>>

\* lines 900-910: while not done, and the events of the frame, a quit event among
\* them or not
LoopTest ==
  /\ main_pc = "loop_test"
  /\ IF done
     THEN main_pc' = "stop" /\ UNCHANGED done
     ELSE main_pc' = "rollover_test" /\ \E quit \in BOOLEAN : done' = quit
  /\ UNCHANGED <<first_run, tomorrow, cost_date, readings_csv_day, date_today,
                 file_vars, rollup_vars, window_vars, total_vars, other_vars>>

\* line 1397: energy_loggger_thread.stop() joins the monitor thread
MainStop ==
  /\ main_pc = "stop"
  /\ ~monitor_stuck
  /\ main_pc' = "stopped"
  /\ monitor_running' = FALSE
  /\ UNCHANGED <<done, first_run, tomorrow, cost_date, readings_csv_day, date_today,
                 log_files, fix_queue, fix_tmp, appended, monitor_stuck, rollup_vars,
                 window_vars, total_vars, other_vars>>

\* line 920
RolloverTest ==
  /\ main_pc = "rollover_test"
  /\ main_pc' = IF date_today = tomorrow \/ first_run THEN "rollover" ELSE "poll"
  /\ UNCHANGED <<done, first_run, tomorrow, cost_date, readings_csv_day, date_today,
                 file_vars, rollup_vars, window_vars, total_vars, other_vars>>

\* lines 921-930: the state of the day is dropped and the window thread joined
RolloverReset ==
  /\ main_pc = "rollover"
  /\ window_pc # "running"
  /\ first_run' = FALSE
  /\ map_dates' = None
  /\ past_cost_and_power_thread_first_run' = TRUE
  /\ past_cost_and_power_thread' = "none"
  /\ window_pc' = "idle"
  /\ UNCHANGED <<done, cost_date, readings_csv_day, date_today, file_vars, window_threads,
                 window_target, cost_and_power_data, snapshot_day, other_vars>>

\* lines 920-967: the rollover step up to the start of the rollup thread
Rollover ==
  /\ RolloverReset
  /\ tomorrow' = date_today + 1
  /\ cost_values' = [i \in 1..6 |-> 0]
  /\ cost_thread' = "set"
  /\ rollup_pc' = "computing"
  /\ slots_read' = 0
  /\ main_pc' = "defaults"
  /\ UNCHANGED past_costs

\* lines 920-942: the archival of the old logs or the price refresh raises; the
\* except clause of the loop ends the frame
RolloverRaises ==
  /\ RolloverReset
  /\ main_pc' = "loop_test"
  /\ UNCHANGED <<tomorrow, rollup_vars>>

\* lines 970-975, one of the six reads of cost_values after the thread was started
DefaultRead ==
  /\ main_pc = "defaults"
  /\ past_costs' = [past_costs EXCEPT ![slots_read + 1] = cost_values[slots_read + 1]]
  /\ slots_read' = slots_read + 1
  /\ main_pc' = IF slots_read + 1 = 6 THEN "poll" ELSE "defaults"
  /\ UNCHANGED <<done, first_run, tomorrow, cost_date, readings_csv_day, date_today,
                 file_vars, cost_thread, rollup_pc, cost_values, window_vars,
                 total_vars, other_vars>>

\* daily_cost_thread, lines 479-573: the totals are computed; an exception is
\* logged and ends the thread with cost_values as it was
RollupCompute ==
  /\ rollup_pc = "computing"
  /\ \E raises \in BOOLEAN : rollup_pc' = IF raises THEN "ended" ELSE "writing"
  /\ UNCHANGED <<frame_vars, date_today, file_vars, cost_thread, cost_values,
                 past_costs, slots_read, window_vars, total_vars, other_vars>>

\* the entries of cost_values the thread has written
Written == {i \in 1..6 : cost_values[i] # 0}

\* the figure of a rollup: any value that is not the default
RollupFigure == 1

\* daily_cost_thread, lines 575-580, one of the six assignments
RollupWrite ==
  /\ rollup_pc = "writing"
  /\ cost_values' = [cost_values EXCEPT ![Cardinality(Written) + 1] = RollupFigure]
  /\ rollup_pc' = IF Cardinality(Written) + 1 = 6 THEN "ended" ELSE "writing"
  /\ UNCHANGED <<frame_vars, date_today, file_vars, cost_thread, past_costs,
                 slots_read, window_vars, total_vars, other_vars>>

\* lines 978-985: the six figures are adopted once the thread is no longer alive
Poll ==
  /\ main_pc = "poll"
  /\ IF cost_thread = "set" /\ ~RollupAlive
     THEN /\ past_costs' = cost_values
          /\ cost_thread' = "none"
          /\ rollup_pc' = "idle"
     ELSE UNCHANGED <<past_costs, cost_thread, rollup_pc>>
  /\ main_pc' = "filename"
  /\ UNCHANGED <<done, first_run, tomorrow, cost_date, readings_csv_day, date_today,
                 file_vars, cost_values, slots_read, window_vars, total_vars,
                 other_vars>>

\* lines 1091-1095
Filename ==
  /\ main_pc = "filename"
  /\ readings_csv_day' = date_today
  /\ main_pc' = "wait_file"
  /\ UNCHANGED <<done, first_run, tomorrow, cost_date, date_today, file_vars,
                 rollup_vars, window_vars, total_vars, other_vars>>

\* lines 1097-1099: the loop sleeps until the file of the day has readings
WaitFile ==
  /\ main_pc = "wait_file"
  /\ HasReadings(log_files, readings_csv_day)
  /\ main_pc' = "windows"
  /\ UNCHANGED <<done, first_run, tomorrow, cost_date, readings_csv_day, date_today,
                 file_vars, rollup_vars, window_vars, total_vars, other_vars>>


\* the except clause of the loop, lines 1394-1395: the frame ends where it raised
FrameRaised ==
  /\ main_pc' = "loop_test"

\* lines 1108-1126: cost_date and the first call of the day of the windows
\* function, made by the loop itself; without a file of cost_date the call raises
Windows ==
  /\ main_pc = "windows"
  /\ cost_date' = date_today
  /\ IF past_cost_and_power_thread_first_run
     THEN IF date_today \in DOMAIN log_files
          THEN /\ snapshot_day' = Some(date_today)
               /\ past_cost_and_power_thread_first_run' = FALSE
               /\ main_pc' = "window_start"
          ELSE /\ FrameRaised
               /\ UNCHANGED <<snapshot_day, past_cost_and_power_thread_first_run>>
     ELSE /\ main_pc' = "window_start"
          /\ UNCHANGED <<snapshot_day, past_cost_and_power_thread_first_run>>
  /\ UNCHANGED <<done, first_run, tomorrow, readings_csv_day, date_today, file_vars,
                 rollup_vars, past_cost_and_power_thread, window_pc, window_threads,
                 window_target, cost_and_power_data, map_dates, other_vars>>

\* a start of the thread in every frame, whatever the thread slot holds
WindowStart_every_frame ==
  /\ main_pc = "window_start"
  /\ IF ~past_cost_and_power_thread_first_run
     THEN /\ past_cost_and_power_thread' = "set"
          /\ window_pc' = "running"
          /\ window_threads' = window_threads + 1
          /\ window_target' = cost_date
          /\ cost_and_power_data' = None
     ELSE UNCHANGED <<past_cost_and_power_thread, window_pc, window_threads,
                      window_target, cost_and_power_data>>
  /\ main_pc' = "window_adopt"
  /\ UNCHANGED <<done, first_run, tomorrow, cost_date, readings_csv_day, date_today,
                 file_vars, rollup_vars, past_cost_and_power_thread_first_run,
                 total_vars, other_vars>>

\* lines 1128-1141: the windows function is started in a thread of its own
WindowStart ==
  /\ main_pc = "window_start"
  /\ IF past_cost_and_power_thread = "none" /\ ~past_cost_and_power_thread_first_run
     THEN /\ past_cost_and_power_thread' = "set"
          /\ window_pc' = "running"
          /\ window_threads' = window_threads + 1
          /\ window_target' = cost_date
          /\ cost_and_power_data' = None
     ELSE UNCHANGED <<past_cost_and_power_thread, window_pc, window_threads,
                      window_target, cost_and_power_data>>
  /\ main_pc' = "window_adopt"
  /\ UNCHANGED <<done, first_run, tomorrow, cost_date, readings_csv_day, date_today,
                 file_vars, rollup_vars, past_cost_and_power_thread_first_run,
                 total_vars, other_vars>>

\* calculate_cost_and_power_after_five_thirty_sixty_minutes as the body of the
\* thread: the figures and the readings of the target day are left in the
\* dictionary; without a file the readings are None and the thread ends in the
\* filter of line 348
WindowRun ==
  /\ window_pc = "running"
  /\ window_pc' = "ended"
  /\ window_threads' = window_threads - 1
  /\ cost_and_power_data' =
       Some(IF window_target \in DOMAIN log_files THEN Some(window_target) ELSE None)
  /\ UNCHANGED <<frame_vars, date_today, file_vars, rollup_vars,
                 past_cost_and_power_thread, past_cost_and_power_thread_first_run,
                 window_target, total_vars, other_vars>>

\* the same body when the read of the log raises: the dictionary stays empty
WindowRaises ==
  /\ window_pc = "running"
  /\ window_pc' = "ended"
  /\ window_threads' = window_threads - 1
  /\ UNCHANGED <<frame_vars, date_today, file_vars, rollup_vars,
                 past_cost_and_power_thread, past_cost_and_power_thread_first_run,
                 window_target, cost_and_power_data, total_vars, other_vars>>

\* lines 1143-1149: the dictionary of a thread that is no longer alive is taken
\* over; the keys of an empty dictionary are missing and the frame raises
WindowAdopt ==
  /\ main_pc = "window_adopt"
  /\ IF past_cost_and_power_thread = "set" /\ window_pc = "ended"
     THEN IF cost_and_power_data = None
          THEN /\ FrameRaised
               /\ UNCHANGED <<snapshot_day, past_cost_and_power_thread, window_pc>>
          ELSE /\ snapshot_day' = cost_and_power_data[1]
               /\ past_cost_and_power_thread' = "none"
               /\ window_pc' = "idle"
               /\ main_pc' = "faster"
     ELSE /\ main_pc' = "faster"
          /\ UNCHANGED <<snapshot_day, past_cost_and_power_thread, window_pc>>
  /\ UNCHANGED <<done, first_run, tomorrow, cost_date, readings_csv_day, date_today,
                 file_vars, rollup_vars, past_cost_and_power_thread_first_run,
                 window_threads, window_target, cost_and_power_data, map_dates, other_vars>>

\* calculate_total_cost_and_power_faster on the days of the counts of a map: the
\* rows of the snapshot are counted when their date is the target date, on top of
\* the counts of the previous map
faster_map_dates(target_date, readings_day, previous) ==
  IF readings_day = None THEN None
  ELSE Some((IF previous = None THEN {} ELSE previous[1])
            \cup ({readings_day[1]} \cap {target_date}))

\* lines 1151-1160
Faster ==
  /\ main_pc = "faster"
  /\ map_dates' = faster_map_dates(cost_date, snapshot_day, map_dates)
  /\ main_pc' = "flip"
  /\ UNCHANGED <<done, first_run, tomorrow, cost_date, readings_csv_day, date_today,
                 file_vars, rollup_vars, window_vars, snapshot_day, other_vars>>

\* lines 1392-1393: the frame is shown
Flip ==
  /\ main_pc = "flip"
  /\ main_pc' = "loop_test"
  /\ UNCHANGED <<done, first_run, tomorrow, cost_date, readings_csv_day, date_today,
                 file_vars, rollup_vars, window_vars, total_vars, other_vars>>

\* the steps of main() and of the two threads it starts
MainSteps ==
  \/ MainStart \/ FixRead \/ FixCopy \/ MainLocals
  \/ LoopTest \/ MainStop \/ RolloverTest \/ Rollover \/ RolloverRaises
  \/ DefaultRead \/ RollupCompute \/ RollupWrite \/ Poll
  \/ Filename \/ WaitFile
  \/ Windows \/ WindowStart \/ WindowRun \/ WindowRaises \/ WindowAdopt
  \/ Faster \/ Flip

MainInit ==
  /\ MonitorInit /\ AggregationIdle /\ ReaderIdle /\ MainLocalsIdle
  /\ log_files \in {<<>>, FirstDay :> {OldRecord}}

MainNext == MainSteps \/ MonitorAppends \/ MonitorBlocks \/ DayTick

MainSpec == MainInit /\ [][MainNext]_vars

\* every thread that can take a step takes one; the monitor thread and midnight
\* are left to the environment
MainLiveSpec == MainSpec /\ WF_vars(MainSteps)

(***************************************************************************)
(* Claims about the aggregation functions (AggregationSpec)                *)
(***************************************************************************)
\* the rows of the last snapshot
Snapshot == SubSeq(readings, 1, shown)

\* the rows of a log whose slot date is the target date
TargetRows(rows) == {i \in DOMAIN rows : rows[i].unit.date = TargetDate}

\* the prices of the rows i .. Len(rows) that are of the target date and in a priced slot
RECURSIVE PriceOfRows(_, _)
PriceOfRows(rows, i) ==
  IF i > Len(rows) THEN 0
  ELSE (IF i \in TargetRows(rows) /\ rows[i].unit.slot \in DOMAIN time_to_price_map
        THEN time_to_price_map[rows[i].unit.slot] ELSE 0) + PriceOfRows(rows, i + 1)

\* C1: once the whole log (at least 2 records) has been revealed in growing prefixes
\* to calculate_total_cost_and_power_faster, each call being given the
\* time_to_watts_map of the call before, the cost and the power of the last call
\* are those of one calculate_total_cost scan of the whole log.
C1_IncrementalEqualsFullScan ==
  (/\ calculated_data # None
   /\ full_scan # None
   /\ shown = Len(readings)
   /\ Len(readings) >= 2)
  => /\ calculated_data[1].cost = full_scan[1].cost
     /\ calculated_data[1].power = full_scan[1].power

\* C2: a call with previous_time_watts_map = None returns exactly four entries:
\* time_to_watts_map counts, for each of the 48 slots, the rows of the target date in
\* that slot; power is the count of all of them / BLINKS_PER_KILOWATT; cost is the
\* sum over the rows in priced slots of price / BLINKS_PER_KILOWATT / 100;
\* average_cost_in_pence is 100 * cost / power, and 0 when power is 0.
C2_FirstCallResult ==
  cycles = 1 =>
    LET data == calculated_data[1]
        rows == Snapshot
        power == Rat(Cardinality(TargetRows(rows)), BLINKS_PER_KILOWATT)
        cost == Rat(PriceOfRows(rows, 1), BLINKS_PER_KILOWATT * 100)
    IN /\ DOMAIN data = {"cost", "power", "average_cost_in_pence", "time_to_watts_map"}
       /\ data.time_to_watts_map =
            Some([s \in TIMES |->
                    Cardinality({i \in TargetRows(rows) : rows[i].unit.slot = s})])
       /\ data.power = power
       /\ data.cost = cost
       /\ data.average_cost_in_pence =
            IF Cardinality(TargetRows(rows)) = 0 THEN R(0)
            ELSE Rat(100 * cost.n * power.d, cost.d * power.n)

\* C2 witness: a first call over rows of the target date and of another date, one of
\* them in a slot the price table lacks, with a cost above 0
C2_Witness ==
  /\ cycles = 1
  /\ TargetRows(Snapshot) # {}
  /\ TargetRows(Snapshot) # DOMAIN Snapshot
  /\ \E i \in TargetRows(Snapshot) : Snapshot[i].unit.slot \notin DOMAIN time_to_price_map
  /\ calculated_data[1].cost # R(0)

(***************************************************************************)
(* Claims about the monitor (Spec)                                         *)
(***************************************************************************)
IsReading(e) == e.site = "reading"

\* the pulses the monitor has recorded, real and synthesized, in order
AllReadings == SelectSeq(written, IsReading)

\* the writes of the step, and the pulses among them
NewWrites == SubSeq(written', Len(written) + 1, Len(written'))
NewReadings == SelectSeq(NewWrites, IsReading)

\* the step is a tick that detects a pulse: the clock is read
PulseDetected == InBody /\ monitor_pc' = "while" /\ current_time' # current_time

\* before the tick, the last two pulse times are known
KnowsTwoPulses == Positive(current_time) /\ Positive(previous_time)

\* the gap to the new pulse is an outlier against the interval before it
GapIsOutlier ==
  ExceedsOutlier(RSub(current_time', current_time), RSub(current_time, previous_time))

\* C3: a tick that detects a pulse with both earlier pulse times known, the new
\* interval over the multiplier times the interval before, and the fix counter
\* under the limit, appends round(currentInterval / previousInterval) - 1 records
\* tagged "fixed", their times strictly increasing and strictly between the two
\* real pulses, and after them the real pulse tagged "original".
C3_GapSmoothing ==
  [][(PulseDetected /\ KnowsTwoPulses /\ GapIsOutlier
      /\ fix_counter < LTR559_SMOOTHING_LIMIT)
     => LET n == np_round(RSub(current_time', current_time),
                          RSub(current_time, previous_time))
            new == NewReadings
        IN /\ Len(new) = n
           /\ \A i \in 1..(n - 1) :
                /\ new[i].row.origin = "fixed"
                /\ RLt(current_time, new[i].row.epoch_time)
                /\ RLt(new[i].row.epoch_time, current_time')
                /\ i > 1 => RLt(new[i - 1].row.epoch_time, new[i].row.epoch_time)
                /\ new[i].file = Day(new[i].row.epoch_time)
           /\ new[n].row.origin = "original"
           /\ new[n].row.epoch_time = current_time'
           /\ new[n].row.lux = current_lux'
           /\ new[n].file = Day(current_time')]_vars

\* C3 witness: a tick has filled a gap with two synthesized pulses
C3_Witness ==
  LET p == AllReadings
      n == Len(p)
  IN /\ monitor_pc = "while"
     /\ n >= 5
     /\ p[n].row.origin = "original"
     /\ p[n - 1].row.origin = "fixed"
     /\ p[n - 2].row.origin = "fixed"
     /\ p[n].row.epoch_time = current_time

\* the last pulse among the first k that is not a synthesized one (0: none)
LastReal(p, k) ==
  LET S == {j \in 1..k : p[j].row.origin # "fixed"}
  IN IF S = {} THEN 0 ELSE CHOOSE j \in S : \A i \in S : i <= j

\* the number of real pulses in a row, up to the k-th pulse, that had their gap filled
RECURSIVE SmoothedRun(_, _)
SmoothedRun(p, k) ==
  IF k >= 2 /\ p[k].row.origin = "original" /\ p[k - 1].row.origin = "fixed"
  THEN 1 + SmoothedRun(p, LastReal(p, k - 1))
  ELSE 0

\* C4: the fix counter stays within 0 .. LTR559_SMOOTHING_LIMIT, it counts the
\* detected pulses in a row whose gap was smoothed (so at most the limit of them),
\* and a detected pulse with both earlier times known that does not trigger
\* smoothing, a large gap met with the counter at the limit included, appends the
\* pulse alone and sets the counter to 0.
C4_FixCounter ==
  [][/\ fix_counter' \in 0..LTR559_SMOOTHING_LIMIT
     /\ SmoothedRun(AllReadings', Len(AllReadings')) = fix_counter'
     /\ (PulseDetected /\ KnowsTwoPulses
         /\ ~(GapIsOutlier /\ fix_counter < LTR559_SMOOTHING_LIMIT))
        => (fix_counter' = 0 /\ Len(NewReadings) = 1)]_vars

\* C4 witness: the counter is back at 0 after a gap that is an outlier and was not
\* smoothed, which happens only when the counter had reached the limit
C4_Witness ==
  /\ monitor_pc = "while"
  /\ fix_counter = 0
  /\ HasHistory(MonitorState)
  /\ ExceedsOutlier(RSub(current_time, previous_time),
                    RSub(previous_time, previous_previous_time))

\* C5: a tick whose lux is positive and differs from previous_lux by less than
\* LTR559_MIN_LUX_DIFFERENCE_FOR_READING writes nothing and leaves previous_lux, the
\* three pulse times, the previous origin and the fix counter as they were.
C5_DebounceFrame ==
  [][(/\ InBody
      /\ monitor_pc' = "while"
      /\ RLt(R(0), current_lux')
      /\ RLt(RAbs(RSub(previous_lux, current_lux')),
             R(LTR559_MIN_LUX_DIFFERENCE_FOR_READING)))
     => UNCHANGED <<files, written, previous_lux, current_time, previous_time,
                    previous_previous_time, previous_time_origin, fix_counter>>]_vars

\* C5 witness: after recorded pulses, a tick has read a lux that is positive, differs
\* from previous_lux, and is within the minimum difference
C5_Witness ==
  /\ monitor_pc = "while"
  /\ Len(written) > 0
  /\ RLt(R(0), current_lux)
  /\ current_lux # previous_lux
  /\ RLt(RAbs(RSub(previous_lux, current_lux)), R(LTR559_MIN_LUX_DIFFERENCE_FOR_READING))

\* row k of the file of day d is the first pulse of day d in it
FirstPulseOfDay(d, k) ==
  /\ Day(files[d][k].epoch_time) = d
  /\ \A j \in 1..(k - 1) : Day(files[d][j].epoch_time) # d

\* the file of day d holds the row
InFile(d, row) == d \in DOMAIN files /\ \E m \in DOMAIN files[d] : files[d][m] = row

\* the first pulse the monitor detected
IsFirstDetected(row) == AllReadings # <<>> /\ row = AllReadings[1].row

Preceding(row) ==
  LET p == AllReadings
      i == CHOOSE j \in DOMAIN p : p[j].row = row
  IN p[i - 1].row

\* C7: every day file to which the monitor has appended a pulse of its day begins
\* with the pulse recorded just before (its lux, epoch time and origin) followed by
\* the day's first pulse; stated for the files whose first pulse had a pulse before it.
C7_SeedBeforeFirstPulse ==
  \A d \in DOMAIN files : \A k \in DOMAIN files[d] :
    (FirstPulseOfDay(d, k) /\ ~IsFirstDetected(files[d][k]))
    => /\ k = 2
       /\ files[d][1].lux = Preceding(files[d][2]).lux
       /\ files[d][1].epoch_time = Preceding(files[d][2]).epoch_time
       /\ files[d][1].origin = Preceding(files[d][2]).origin

\* the rows of the file of day d - 1 that are pulses of day d
CarriedOver(d) ==
  IF (d - 1) \in DOMAIN files
  THEN {m \in DOMAIN files[d - 1] : Day(files[d - 1][m].epoch_time) = d}
  ELSE {}

\* the first pulse the monitor recorded for day d
FirstRecordedOfDay(d) ==
  LET p == AllReadings
      S == {j \in DOMAIN p : Day(p[j].row.epoch_time) = d}
  IN p[CHOOSE j \in S : \A i \in S : j <= i].row

\* C8: the file of the day before receives at most one record of a day, and that
\* record is the day's first pulse.
C8_OneCarriedOverRecord ==
  \A d \in DOMAIN files :
    /\ Cardinality(CarriedOver(d)) <= 1
    /\ \A m \in CarriedOver(d) : files[d - 1][m] = FirstRecordedOfDay(d)

\* C9: in every day file the epoch times of the rows are non-decreasing in append
\* order.
C9_EpochTimesOrdered ==
  \A d \in DOMAIN files : \A i, j \in DOMAIN files[d] :
    i < j => RLe(files[d][i].epoch_time, files[d][j].epoch_time)

\* C9 witness: a file that begins with the seed row of the day before and holds
\* synthesized pulses, while the file of the day before ends with a stitching copy
C9_Witness ==
  \E d \in DOMAIN files :
    /\ (d - 1) \in DOMAIN files
    /\ Len(files[d]) >= 3
    /\ Day(files[d][1].epoch_time) = d - 1
    /\ \E i \in DOMAIN files[d] : files[d][i].origin = "fixed"
    /\ Len(files[d - 1]) >= 3
    /\ Day(files[d - 1][Len(files[d - 1])].epoch_time) = d

\* C10: stop() returns only once the stop flag is set and the monitor thread has
\* ended, and after it has returned no record is written to any file.
C10_StopJoins ==
  [][/\ stop_pc' = "returned" => (~started' /\ thread' = "dead")
     /\ stop_pc = "returned" => (files' = files /\ written' = written)]_vars

\* C10 witness: stop() was called while the thread was inside a tick, after pulses
\* were recorded, and has returned
C10_Witness ==
  /\ stop_pc = "returned"
  /\ stop_seen_pc = "body"
  /\ Len(written) > 0

(***************************************************************************)
(* Faults of a tick                                                        *)
(***************************************************************************)
\* C11: an exception raised during a tick is absorbed by the except clause, so
\* the monitor thread never ends while the stop flag is not set: whenever the
\* thread has ended, self.started is False.
C11_FaultsAbsorbed == thread = "dead" => ~started

(***************************************************************************)
(* Claims about the reading functions (ReaderSpec)                         *)
(***************************************************************************)
\* a call on a file of whole lines
Called(function) ==
  /\ reader_call # None
  /\ reader_call[1].function = function
  /\ "lines" \notin DOMAIN reader_call[1]

\* a call on a file whose last line is partly written
CalledOnPartialLine == reader_call # None /\ "lines" \in DOMAIN reader_call[1]

\* the rows of the log of the call that are younger than seconds at from_time
InWindow(seconds) ==
  LET log == reader_call[1].day_file[1]
  IN {i \in DOMAIN log :
        RLt(RSub(reader_call[1].from_time, Seconds(seconds)), log[i].epoch_time)}

\* those of them whose slot date is the target date
TargetInWindow(seconds) ==
  {i \in InWindow(seconds) : reader_call[1].day_file[1][i].unit.date = TargetDate}

PowerOf(count) == Rat(count, BLINKS_PER_KILOWATT)

\* the backward scan counts every row of each window
BackwardScanCounts ==
  Called("get_power_stats_from_past") =>
    LET stats == reader_returned[1]
    IN /\ stats.power_last_five_minutes = PowerOf(Cardinality(InWindow(300)))
       /\ stats.power_last_thirty_minutes = PowerOf(Cardinality(InWindow(1800)))
       /\ stats.power_last_sixty_minutes = PowerOf(Cardinality(InWindow(3600)))

WindowsCalledOnLog ==
  /\ Called("calculate_cost_and_power_after_five_thirty_sixty_minutes")
  /\ reader_call[1].day_file # None

\* C12 as stated: the trailing 5-, 30- and 60-minute power figures count exactly the
\* rows whose epoch time is greater than now - 300 s, now - 1800 s and now - 3600 s,
\* each row adding 1 / BLINKS_PER_KILOWATT, in the backward file scan and in the
\* full-day filtered form alike, for every number of rows in a window.
C12_WindowsCountEveryRow ==
  /\ BackwardScanCounts
  /\ WindowsCalledOnLog =>
       LET data == reader_returned[1].return_data
       IN /\ data.five_mins_power = PowerOf(Cardinality(InWindow(300)))
          /\ data.thirty_mins_power = PowerOf(Cardinality(InWindow(1800)))
          /\ data.sixty_mins_power = PowerOf(Cardinality(InWindow(3600)))

\* the figure of the filtered form for a window: 0 for fewer than 2 rows in the
\* window, else the rows of the window whose slot date is the target date
FilteredPower(seconds) ==
  IF Cardinality(InWindow(seconds)) < 2 THEN R(0)
  ELSE PowerOf(Cardinality(TargetInWindow(seconds)))

\* C12 as the code has it: the backward scan counts exactly the rows younger than
\* 300 s, 1800 s and 3600 s; the filtered form reports for each window the number of
\* its rows whose slot date is the target date, and 0 when the window holds fewer
\* than 2 rows; each row adds 1 / BLINKS_PER_KILOWATT.
C12_WindowsCountTargetRows ==
  /\ BackwardScanCounts
  /\ WindowsCalledOnLog =>
       LET data == reader_returned[1].return_data
       IN /\ data.five_mins_power = FilteredPower(300)
          /\ data.thirty_mins_power = FilteredPower(1800)
          /\ data.sixty_mins_power = FilteredPower(3600)

\* pulses 400 s, 200 s and 10 s old: the 5-minute window counts 2, the hour counts 3
C12_Witness ==
  /\ WindowsCalledOnLog
  /\ Len(reader_call[1].day_file[1]) = 3
  /\ \A i \in 1..3 :
       reader_call[1].day_file[1][i].epoch_time
         = RSub(NowInstant, Seconds(<<400, 200, 10>>[i]))
  /\ reader_returned[1].return_data.five_mins_power = PowerOf(2)
  /\ reader_returned[1].return_data.sixty_mins_power = PowerOf(3)

ShortLog(day_file) == day_file = None \/ Len(day_file[1]) < 2

\* C13: when the day's log is absent or has fewer than 2 rows,
\* calculate_cost_and_power_after_five_thirty_sixty_minutes ends without raising and
\* return_data is the zero state: six figures 0, readings_df and time_to_price_map
\* None.
C13_ZeroStateForShortLog ==
  (/\ Called("calculate_cost_and_power_after_five_thirty_sixty_minutes")
   /\ ShortLog(reader_call[1].day_file))
  => /\ ~reader_returned[1].raised
     /\ reader_returned[1].return_data = ZeroReturnData

\* C14: calculate_total_cost returns cost 0 and power 0 and has not read the price
\* source when the day's log is absent or has fewer than 2 records.
C14_TotalCostOfShortLog ==
  (/\ Called("calculate_total_cost")
   /\ ShortLog(reader_call[1].day_file))
  => reader_returned[1] = [cost |-> R(0), power |-> R(0), price_reads |-> 0]

\* a log of one record was scanned
C14_Witness ==
  /\ Called("calculate_total_cost")
  /\ reader_call[1].day_file # None
  /\ Len(reader_call[1].day_file[1]) = 1
  /\ reader_call[1].day_file[1][1].unit.date = TargetDate
  /\ reader_returned[1].power = R(0)

\* the rows of the log that are of the target date
TargetRowsOf(log) == {i \in DOMAIN log : log[i].unit.date = TargetDate}

\* the sum of the prices of the rows i .. Len(log) of the target date in a priced slot
RECURSIVE PricesOfRows(_, _, _)
PricesOfRows(log, prices, i) ==
  IF i > Len(log) THEN 0
  ELSE (IF i \in TargetRowsOf(log) /\ log[i].unit.slot \in DOMAIN prices
        THEN prices[log[i].unit.slot] ELSE 0) + PricesOfRows(log, prices, i + 1)

\* C15: for a log of at least 2 records calculate_total_cost returns as power the
\* number of rows of the target date / BLINKS_PER_KILOWATT and as cost the sum, over
\* the rows of the target date in a slot of the price table, of
\* price / BLINKS_PER_KILOWATT / 100: a row in a slot the table lacks adds to the
\* power and nothing to the cost.
C15_TotalCostOfLog ==
  (/\ Called("calculate_total_cost")
   /\ ~ShortLog(reader_call[1].day_file))
  => LET log == reader_call[1].day_file[1]
         prices == reader_call[1].prices
     IN /\ reader_returned[1].power = PowerOf(Cardinality(TargetRowsOf(log)))
        /\ reader_returned[1].cost
             = Rat(PricesOfRows(log, prices, 1), BLINKS_PER_KILOWATT * 100)

\* two rows of the target date, one of them in the slot a partial table lacks
C15_Witness ==
  /\ Called("calculate_total_cost")
  /\ ~ShortLog(reader_call[1].day_file)
  /\ LET log == reader_call[1].day_file[1]
         prices == reader_call[1].prices
     IN /\ Len(log) = 2
        /\ TargetRowsOf(log) = {1, 2}
        /\ log[1].unit.slot \notin DOMAIN prices
        /\ log[2].unit.slot \in DOMAIN prices
        /\ reader_returned[1].power = PowerOf(2)
        /\ reader_returned[1].cost
             = Rat(prices[log[2].unit.slot], BLINKS_PER_KILOWATT * 100)

NothingToAggregate ==
  /\ Called("calculate_total_cost_and_power_faster")
  /\ reader_call[1].readings_df = None \/ reader_call[1].price_map = None

\* C16: when the log or the price table is None,
\* calculate_total_cost_and_power_faster returns cost 0, power 0,
\* average_cost_in_pence 0 and time_to_watts_map None, and the previous
\* time_to_watts_map it was given is as it was before the call.
C16_FasterWithoutInput ==
  NothingToAggregate
  => /\ reader_returned[1].data = [cost |-> R(0), power |-> R(0),
                                   average_cost_in_pence |-> R(0),
                                   time_to_watts_map |-> None]
     /\ reader_returned[1].previous_after = reader_call[1].previous

\* a snapshot with rows of the target date, no price table, and a map from before
C16_Witness ==
  /\ NothingToAggregate
  /\ reader_call[1].price_map = None
  /\ reader_call[1].readings_df # None
  /\ TargetRowsOf(reader_call[1].readings_df[1]) # {}
  /\ reader_call[1].previous = Some([ZeroWattsMap EXCEPT ![1] = 1])
  /\ reader_returned[1].previous_after = reader_call[1].previous

\* the three counts taken over every row of the file, from the first to row i
RECURSIVE CountEveryRow(_, _, _)
CountEveryRow(rows, i, from_time) ==
  IF i = 0 THEN [five |-> 0, thirty |-> 0, sixty |-> 0]
  ELSE LET before == CountEveryRow(rows, i - 1, from_time)
           age == RSub(from_time, rows[i].epoch_time)
       IN [five |-> before.five + (IF RLt(age, Seconds(300)) THEN 1 ELSE 0),
           thirty |-> before.thirty + (IF RLt(age, Seconds(1800)) THEN 1 ELSE 0),
           sixty |-> before.sixty + (IF RLt(age, Seconds(3600)) THEN 1 ELSE 0)]

\* C21: on a log whose rows are in non-decreasing order of epoch time, the
\* backward scan of get_power_stats_from_past, which stops at the first row older
\* than the hour, returns the three counts that counting over every row gives
C21_BackwardScanIsFullCount ==
  Called("get_power_stats_from_past") =>
    LET log == reader_call[1].day_file[1]
        every == CountEveryRow(log, Len(log), reader_call[1].from_time)
        stats == reader_returned[1]
    IN (\A i \in 1..(Len(log) - 1) : RLe(log[i].epoch_time, log[i + 1].epoch_time))
       => /\ stats.power_last_five_minutes = Rat(every.five, BLINKS_PER_KILOWATT)
          /\ stats.power_last_thirty_minutes = Rat(every.thirty, BLINKS_PER_KILOWATT)
          /\ stats.power_last_sixty_minutes = Rat(every.sixty, BLINKS_PER_KILOWATT)

\* the scan stops before it has seen the whole file: two rows older than the hour
\* lie under rows of the last half-hour and of the half-hour before it
C21_Witness ==
  /\ Called("get_power_stats_from_past")
  /\ LET log == reader_call[1].day_file[1]
         age(i) == RSub(reader_call[1].from_time, log[i].epoch_time)
     IN /\ Len(log) = 3
        /\ RLt(Seconds(3600), age(1))
        /\ RLt(Seconds(1800), age(2)) /\ RLt(age(2), Seconds(3600))
        /\ RLt(age(3), Seconds(300))
  /\ reader_returned[1].power_last_sixty_minutes = Rat(2, BLINKS_PER_KILOWATT)
  /\ reader_returned[1].power_last_thirty_minutes = Rat(1, BLINKS_PER_KILOWATT)

\* C22: whatever part of a record the monitor has written so far, the reading
\* functions (get_power_stats_from_past, live_energy_time_reading and the readers
\* of the whole day) return a result and do not raise
C22_PartialLineTolerated == CalledOnPartialLine => ~reader_returned[1].raised

\* C23: fix_data_corruption_of_latest_two_files leaves in each of the two latest
\* files exactly the lines with 5 fields and only ASCII characters, in their
\* order, and leaves every other file as it was
C23_TwoLatestFilesRepaired ==
  Called("fix_data_corruption_of_latest_two_files") =>
    LET before == reader_call[1].directory
        after == reader_returned[1].directory
        n == Len(before)
    IN /\ Len(after) = n
       /\ \A i \in 1..n :
            after[i] = IF i >= n - 1
                       THEN SelectSeq(before[i], LAMBDA line : line.kind = "record")
                       ELSE before[i]

\* the file of the day holds all 48 slots
PersistedWholeDay ==
  /\ reader_call[1].persisted.state = "file"
  /\ DOMAIN reader_call[1].persisted.prices = TIMES

\* the read of the file, the request, its answer or the conversion fails
PriceFetchFails ==
  \/ reader_call[1].persisted.state = "unreadable"
  \/ /\ ~PersistedWholeDay
     /\ \/ reader_call[1].api.state = "raises"
        \/ DOMAIN reader_call[1].api.prices = {}
        \/ reader_call[1].conversion_raises

Mixed(figures) == \E i, j \in 1..6 : figures[i] # figures[j]

\* C17: the yesterday, week and month figures the frames show were copied from
\* cost_values only when the rollup thread had finished: outside the six reads
\* of lines 970-975 they are never partly defaults and partly figures the
\* thread has written
C17_FiguresOfFinishedRollup == main_pc # "defaults" => ~Mixed(past_costs)

\* C18: while the monitor thread runs, no other task rewrites a day log the
\* monitor may still append to: every record the monitor has appended is in
\* the file of its day
C18_MonitorRecordsKept ==
  \A record \in appended :
    record.day \in DOMAIN log_files /\ record \in log_files[record.day]

\* C19: when the sensor read of the monitor thread blocks for ever, the loop of
\* main() still finishes its frames: it does not stay for ever in its wait for
\* the readings of the day
C19_DisplayLoopLive ==
  (monitor_stuck /\ main_pc = "wait_file") ~> (main_pc # "wait_file")

\* C20: the incremental total of a frame holds no count of another day than its
\* target date
C20_TotalOfTargetDay ==
  (main_pc = "flip" /\ map_dates # None) => map_dates[1] \subseteq {cost_date}

(***************************************************************************)
(* Claims about the records of the monitor (Spec)                          *)
(***************************************************************************)
\* C25: the price slot of every record the monitor writes (pulse, synthesized
\* pulse, seed and copy) is the half-hour that holds the record's own epoch time:
\* the date of the epoch time and its time of day rounded down to :00 or :30
C25_SlotOfOwnEpochTime ==
  \A i \in DOMAIN written :
    LET row == written[i].row
    IN row.unit = [date |-> Day(row.epoch_time), slot |-> SlotOfDay(row.epoch_time)]

\* the rows of the file of a day that calculate_total_cost counts for the day
\* (lines 270-276: the rows whose slot date is the target date) and that
\* record the pulse of epoch_time
CountedFor(epoch_time, day) ==
  IF ~FileExists(files, day) THEN {}
  ELSE {j \in DOMAIN files[day] :
          files[day][j].epoch_time = epoch_time /\ files[day][j].unit.date = day}

\* C26: every pulse the monitor has recorded, detected or synthesized, is counted
\* by calculate_total_cost for one day only, the day of its epoch time, and once
C26_PulseCountedForItsDay ==
  \A i \in DOMAIN written :
    LET epoch_time == written[i].row.epoch_time
    IN \A day \in DOMAIN files \cup {Day(epoch_time)} :
         Cardinality(CountedFor(epoch_time, day))
           = IF day = Day(epoch_time) THEN 1 ELSE 0

\* C27: a tick whose lux is 0 or negative writes nothing and leaves previous_lux,
\* the three pulse times, the previous origin and the fix counter as they were;
\* so between ticks previous_lux is the lux of the last record written, which is
\* what the debounce test of the next positive reading compares with
C27_IdleFrame ==
  /\ [][(/\ InBody
         /\ monitor_pc' = "while"
         /\ RLe(current_lux', R(0)))
        => UNCHANGED <<files, written, previous_lux, current_time, previous_time,
                       previous_previous_time, previous_time_origin, fix_counter>>]_vars
  /\ []((monitor_pc = "while" /\ written # <<>>)
          => previous_lux = written[Len(written)].row.lux)

\* C27 witness: pulses were recorded and the last tick read no light
C27_Witness ==
  /\ monitor_pc = "while"
  /\ thread = "alive"
  /\ written # <<>>
  /\ RLe(current_lux, R(0))
  /\ previous_lux = written[Len(written)].row.lux

(***************************************************************************)
(* Claims about the incremental aggregation (AggregationSpec)              *)
(***************************************************************************)
\* the sum of the counts of the slots lo .. hi - 1 of a map
RECURSIVE CountsOf(_, _, _)
CountsOf(time_to_watts_map, lo, hi) ==
  IF hi - lo = 1 THEN time_to_watts_map[lo]
  ELSE LET mid == (lo + hi) \div 2
       IN CountsOf(time_to_watts_map, lo, mid) + CountsOf(time_to_watts_map, mid, hi)

\* from one cycle to the next no count of a slot decreases
C28_CountsNeverDecrease ==
  [][(previous_time_watts_map # None /\ previous_time_watts_map' # None)
     => \A time_str \in TIMES :
          previous_time_watts_map'[1][time_str] >= previous_time_watts_map[1][time_str]]_vars

ReadsWindowResult ==
  /\ main_pc = "window_adopt"
  /\ \/ snapshot_day' # snapshot_day
     \/ past_cost_and_power_thread' # past_cost_and_power_thread
     \/ main_pc' = "loop_test"

\* a step of the rollover block, lines 920-930
RolloverStep == main_pc = "rollover" /\ main_pc' # "rollover"

\* C29: at most one thread of the windows function is alive at any time; the
\* loop reads the dictionary of the thread only in a step in which no such
\* thread is alive; and the rollover block leaves no thread alive and the slot
\* empty without taking over the readings of the thread it joined
C29_OneWindowTask ==
  /\ [](window_threads <= 1)
  /\ [][ReadsWindowResult => window_threads = 0 /\ window_pc = "ended"]_vars
  /\ [][RolloverStep => /\ window_threads' = 0
                        /\ past_cost_and_power_thread' = "none"
                        /\ snapshot_day' = snapshot_day]_vars

\* the rollover block has just joined a thread that was started in the frame
\* before for the new day and that ended with an empty dictionary: the slot is
\* empty and the dictionary was not read
C29_Witness ==
  /\ main_pc = "defaults"
  /\ slots_read = 0
  /\ past_cost_and_power_thread = "none"
  /\ window_threads = 0
  /\ window_target = FirstDay + 1
  /\ cost_and_power_data = None

\* the thread of the windows function has ended and is still in the slot
WindowTaskEnded == past_cost_and_power_thread = "set" /\ window_pc = "ended"

\* the loop sleeps at lines 1097-1099 for a file that has no readings
LoopWaits == main_pc = "wait_file" /\ ~HasReadings(log_files, readings_csv_day)

\* C30: whenever the thread of the windows function has ended, with its
\* dictionary filled or left empty by an exception, the loop of main() later
\* clears the thread slot, so that a fresh thread is started in a following
\* frame, unless the loop has been told to stop, sleeps for the file of the day,
\* or the next day has begun
C30_WindowTaskRestarted ==
  WindowTaskEnded ~>
    \/ past_cost_and_power_thread = "none"
    \/ main_pc \in {"stop", "stopped"}
    \/ LoopWaits
    \/ date_today >= tomorrow

\* ---------------------------------------------------------------------------
\* Claims about the history of the monitor after a fault (FaultSpec)
\* ---------------------------------------------------------------------------

\* the places in the append order of the pulses themselves, without the seed
\* rows and the copies into the file of the day before
Readings == {i \in DOMAIN written : written[i].site = "reading"}

\* the place of the most recent "original" pulse appended
OriginalReadings == {i \in Readings : written[i].row.origin = "original"}

LastOf(places) == CHOOSE i \in places : \A j \in places : j <= i

\* the tick has ended: by its sleep or in the except clause
TickEnded == thread = "alive" /\ monitor_pc \in {"while", "except"}

\* C31: at the end of every tick, also of one in which a write raised,
\* current_time is the epoch time of the most recent "original" record that was
\* appended and previous_time the epoch time of the pulse appended just before it
C31_HistoryMatchesLog ==
  (TickEnded /\ OriginalReadings # {}) =>
    LET last == LastOf(OriginalReadings)
        before == {i \in Readings : i < last}
    IN /\ current_time = written[last].row.epoch_time
       /\ before # {} => previous_time = written[LastOf(before)].row.epoch_time

\* ---------------------------------------------------------------------------
\* Claims about the daily rollup (DailyCostSpec)
\* ---------------------------------------------------------------------------

\* the figures of a day of the call: those of its cache file when the call found
\* one, those of the full scan of its log otherwise
PerDayResult(day) ==
  IF day \in DOMAIN reader_call[1].cache THEN reader_call[1].cache[day]
  ELSE full_scan_of_day(day, reader_call[1].logs, reader_call[1].raises_on)

\* log files exist for all the n days before the day of the rollup
LogsOfAll(n) == \A i \in 1..n : (RollupDay - i) \in reader_call[1].logs

\* the days whose figures the thread asks for
DaysAsked ==
  {RollupDay - i : i \in {1} \cup (IF LogsOfAll(7) THEN 1..7 ELSE {})
                             \cup (IF LogsOfAll(31) THEN 1..31 ELSE {})}

RECURSIVE SumOfDays(_, _)
\* the sums of the figures of the n days before the day of the rollup
SumOfDays(n, field) ==
  IF n = 0 THEN 0
  ELSE SumOfDays(n - 1, field)
         + (IF field = "cost" THEN PerDayResult(RollupDay - n).cost
            ELSE PerDayResult(RollupDay - n).power)

\* C32: the week totals of the rollup are 0 unless there are logs of all the 7
\* days before, the month totals 0 unless there are logs of all the 31 days
\* before; totals that are reported are the sums over those days of the figures of
\* the full scan of each day, or of its cache file when there is one, and a cache
\* file that was there is left as it was
C32_WeekAndMonthTotals ==
  Called("daily_cost_thread") =>
    LET values == reader_returned[1].cost_values
    IN /\ ~LogsOfAll(7) => values[3] = 0 /\ values[4] = 0
       /\ ~LogsOfAll(31) => values[5] = 0 /\ values[6] = 0
       /\ (\A day \in DaysAsked : PerDayResult(day).state = "figures") =>
            /\ values[1] = PerDayResult(RollupDay - 1).cost
            /\ values[2] = PerDayResult(RollupDay - 1).power
            /\ LogsOfAll(7) => /\ values[3] = SumOfDays(7, "cost")
                               /\ values[4] = SumOfDays(7, "power")
            /\ LogsOfAll(31) => /\ values[5] = SumOfDays(31, "cost")
                                /\ values[6] = SumOfDays(31, "power")
       /\ \A day \in DOMAIN reader_call[1].cache :
            reader_returned[1].cache[day] = reader_call[1].cache[day]

\* a rollup with logs of all the 31 days that found cache files for some days of
\* the week only and reported a month total
C32_Witness ==
  /\ Called("daily_cost_thread")
  /\ LogsOfAll(31)
  /\ DOMAIN reader_call[1].cache = {RollupDay - i : i \in 1..3}
  /\ reader_returned[1].cost_values[5] = SumOfDays(31, "cost")
  /\ reader_returned[1].cost_values[5] > 0
  /\ DOMAIN reader_returned[1].cache = PastDays

\* ---------------------------------------------------------------------------
\* Claims about the rollover block of main() when it raises (MainSpec)
\* ---------------------------------------------------------------------------

\* C33: every run of the rollover block at a change of day, also one in which
\* the archival of the old logs or the price refresh raises, leaves tomorrow at
\* the day after the current day, so that the block is not entered again in the
\* frames of that day
C33_RolloverFailureAbsorbed ==
  [][(RolloverStep /\ ~first_run) => tomorrow' = date_today + 1]_vars

====
